---- MODULE Spec2Model ----
(***************************************************************************)
(* A model of the flexipageRecordForm Lightning Web Component: the layout  *)
(* parser (parseFlexiPageJson), the visibility evaluator, the conditional  *)
(* format evaluator and the section assembler, together with the           *)
(* component's loading life cycle.                                         *)
(*                                                                         *)
(* JavaScript values are modelled as records [t, n, s] (type tag, numeric  *)
(* payload, string payload); JavaScript objects with string keys as        *)
(* sequences of entries (insertion order is observable through             *)
(* Object.keys / Object.entries) or as functions over a fixed key set.     *)
(***************************************************************************)
EXTENDS Integers, Sequences, FiniteSets, TLC

\* ------------------------------------------------------------------------
\* JavaScript values
\* ------------------------------------------------------------------------

Undef == [t |-> "undefined", n |-> 0, s |-> ""]

Num(k) == [t |-> "number", n |-> k, s |-> ""]

Str(x) == [t |-> "string", n |-> 0, s |-> x]

Bool(b) == [t |-> "boolean", n |-> IF b THEN 1 ELSE 0, s |-> ""]

\* String.prototype.toLowerCase over the strings the model uses: every string
\* of the model that holds an upper-case letter is listed.
toLowerCase(s) ==
    CASE s = "Name" -> "name"
      [] s = "Status__c" -> "status__c"
      [] s = "Amount__c" -> "amount__c"
      [] s = "Score__c" -> "score__c"
      [] s = "Stage__c" -> "stage__c"
      [] s = "Prospecting" -> "prospecting"
      [] s = "Initech" -> "initech"
      [] s = "CreatedById" -> "createdbyid"
      [] s = "LastModifiedById" -> "lastmodifiedbyid"
      [] s = "Id" -> "id"
      [] s = "SystemModstamp" -> "systemmodstamp"
      [] s = "CreatedDate" -> "createddate"
      [] s = "LastModifiedDate" -> "lastmodifieddate"
      [] s = "OwnerId" -> "ownerid"
      [] s = "OWNERID" -> "ownerid"
      [] s = "Record.Name" -> "record.name"
      [] s = "AND" -> "and"
      [] s = "OR" -> "or"
      [] s = "X" -> "x"
      [] s = "Missing__c" -> "missing__c"
      [] s = "spacerA" -> "spacera"
      [] s = "New" -> "new"
      [] s = "Closed" -> "closed"
      [] s = "Acme" -> "acme"
      [] OTHER -> s

\* Number(s) for a string s: nan tells that the string is not numeric.
StrToNumber(s) ==
    CASE s = "" -> [nan |-> FALSE, n |-> 0]
      [] s = "0" -> [nan |-> FALSE, n |-> 0]
      [] s = "10" -> [nan |-> FALSE, n |-> 10]
      [] s = "30" -> [nan |-> FALSE, n |-> 30]
      [] s = "50" -> [nan |-> FALSE, n |-> 50]
      [] s = "100" -> [nan |-> FALSE, n |-> 100]
      [] OTHER -> [nan |-> TRUE, n |-> 0]

\* Number(v)
ToNumber(v) ==
    CASE v.t = "number" -> [nan |-> FALSE, n |-> v.n]
      [] v.t = "boolean" -> [nan |-> FALSE, n |-> v.n]
      [] v.t = "string" -> StrToNumber(v.s)
      [] OTHER -> [nan |-> TRUE, n |-> 0]

\* String(v) for the numbers and booleans of the model
JsString(v) ==
    CASE v.t = "string" -> v.s
      [] v.t = "number" /\ v.n = 0 -> "0"
      [] v.t = "number" /\ v.n = 10 -> "10"
      [] v.t = "number" /\ v.n = 30 -> "30"
      [] v.t = "number" /\ v.n = 50 -> "50"
      [] v.t = "number" /\ v.n = 100 -> "100"
      [] v.t = "boolean" -> IF v.n = 1 THEN "true" ELSE "false"
      [] OTHER -> "undefined"

\* The position of a string in the code-unit order JavaScript compares strings by.
StrRank(s) ==
    CASE s = "" -> 0
      [] s = "0" -> 1
      [] s = "10" -> 2
      [] s = "100" -> 3
      [] s = "30" -> 4
      [] s = "50" -> 5
      [] s = "Clo" -> 6
      [] s = "Closed" -> 7
      [] s = "New" -> 8
      [] s = "Prospecting" -> 9
      [] OTHER -> 10

\* a < b (abstract relational comparison)
JsLess(a, b) ==
    IF a.t = "string" /\ b.t = "string"
    THEN StrRank(a.s) < StrRank(b.s)
    ELSE LET x == ToNumber(a)
             y == ToNumber(b)
         IN  ~x.nan /\ ~y.nan /\ x.n < y.n

\* a <= b
JsLessEq(a, b) ==
    IF a.t = "string" /\ b.t = "string"
    THEN StrRank(a.s) <= StrRank(b.s)
    ELSE LET x == ToNumber(a)
             y == ToNumber(b)
         IN  ~x.nan /\ ~y.nan /\ x.n <= y.n

\* a === b
StrictEq(a, b) == a = b

\* Boolean(v)
Truthy(v) ==
    CASE v.t = "undefined" -> FALSE
      [] v.t = "number" -> v.n # 0
      [] v.t = "boolean" -> v.n = 1
      [] OTHER -> v.s # ""

\* s.includes(sub) over the strings of the model
StrIncludes(s, sub) ==
    \/ sub = ""
    \/ s = sub
    \/ s = "Closed" /\ sub = "Clo"
    \/ s = "100" /\ sub = "0"

\* leftValue?.includes(rightValue): "undefined" when leftValue is undefined,
\* a TypeError ("throw") when leftValue is a number or a boolean.
OptIncludes(leftValue, rightValue) ==
    CASE leftValue.t = "undefined" -> "undefined"
      [] leftValue.t = "string" ->
           IF StrIncludes(leftValue.s, JsString(rightValue)) THEN "true" ELSE "false"
      [] OTHER -> "throw"

BoolStr(b) == IF b THEN "true" ELSE "false"

\* ------------------------------------------------------------------------
\* Visibility rules
\* ------------------------------------------------------------------------

\* A criterion {leftValue, operator, rightValue} of a rule.
Criterion(leftValue, operator, rightValue) ==
    [leftValue |-> leftValue, operator |-> operator, rightValue |-> rightValue]

\* A field without a visibilityRule.
NoRule == [present |-> FALSE, hasCriteria |-> FALSE, criteria |-> <<>>, booleanFilter |-> <<>>]

\* A visibilityRule {criteria, booleanFilter}; booleanFilter is the filter string
\* as its sequence of tokens (words, numbers, parentheses), <<>> when absent.
VisibilityRule(criteria, booleanFilter) ==
    [present |-> TRUE, hasCriteria |-> TRUE, criteria |-> criteria, booleanFilter |-> booleanFilter]

\* criterion.leftValue.replace("{!Record.", "").replace("}", "")
StripFieldRef(s) ==
    CASE s = "{!Record.Status__c}" -> "Status__c"
      [] s = "{!Record.Amount__c}" -> "Amount__c"
      [] s = "{!Record.Name}" -> "Name"
      [] s = "{!Record.Missing__c}" -> "Missing__c"
      [] OTHER -> s

\* One criterion of a visibility rule against recordData: "true", "false",
\* "undefined" (CONTAINS on an absent value) or "throw" (CONTAINS on a value
\* without an includes method).
VisibilityCriterionMet(criterion, rd) ==
    LET leftFieldApiName == toLowerCase(StripFieldRef(criterion.leftValue))
        leftValue == IF leftFieldApiName \in DOMAIN rd THEN rd[leftFieldApiName] ELSE Undef
        rightValue == criterion.rightValue
    IN  CASE criterion.operator = "CONTAINS" -> OptIncludes(leftValue, rightValue)
          [] criterion.operator = "EQUAL" -> BoolStr(StrictEq(leftValue, rightValue))
          [] criterion.operator = "NE" -> BoolStr(~StrictEq(leftValue, rightValue))
          [] criterion.operator = "GT" -> BoolStr(JsLess(rightValue, leftValue))
          [] criterion.operator = "GE" -> BoolStr(JsLessEq(rightValue, leftValue))
          [] criterion.operator = "LE" -> BoolStr(JsLessEq(leftValue, rightValue))
          [] criterion.operator = "LT" -> BoolStr(JsLess(leftValue, rightValue))
          [] OTHER -> "false"

\* The decimal numeral of a criterion position (index + 1).
PosToken(i) ==
    CASE i = 1 -> "1"
      [] i = 2 -> "2"
      [] i = 3 -> "3"
      [] i = 4 -> "4"
      [] i = 5 -> "5"
      [] OTHER -> "6"

\* expression.replace(/\bfrom\b/g, to) on a token sequence
ReplaceWord(expression, from, to) ==
    [i \in DOMAIN expression |-> IF expression[i] = from THEN to ELSE expression[i]]

\* expression.split(sep): the token runs between the occurrences of sep
RECURSIVE SplitOn(_, _)
SplitOn(expression, sep) ==
    IF \A i \in DOMAIN expression : expression[i] # sep
    THEN <<expression>>
    ELSE LET k == CHOOSE i \in DOMAIN expression :
                      /\ expression[i] = sep
                      /\ \A j \in 1..(i - 1) : expression[j] # sep
         IN  <<SubSeq(expression, 1, k - 1)>>
                 \o SplitOn(SubSeq(expression, k + 1, Len(expression)), sep)

\* The inner loop of evaluateBooleanExpression over one OR part: every operand
\* is looked at, and one that is neither "1" nor "0" throws.
AndPartResult(orPart) ==
    LET andParts == SplitOn(orPart, "&&")
    IN  IF \E i \in DOMAIN andParts : andParts[i] \notin {<<"1">>, <<"0">>}
        THEN "throw"
        ELSE BoolStr(\A i \in DOMAIN andParts : andParts[i] = <<"1">>)

\* The outer loop of evaluateBooleanExpression from OR part i on: the first
\* OR part that is true ends the evaluation.
RECURSIVE EvalOrParts(_, _)
EvalOrParts(orParts, i) ==
    IF i > Len(orParts)
    THEN "false"
    ELSE LET r == AndPartResult(orParts[i])
         IN  IF r = "false" THEN EvalOrParts(orParts, i + 1) ELSE r

evaluateBooleanExpression(expression) ==
    LET evalExpression == ReplaceWord(ReplaceWord(expression, "true", "1"), "false", "0")
    IN  EvalOrParts(SplitOn(evalExpression, "||"), 1)

\* results.forEach((result, index) => expression.replace(/\b(index+1)\b/g, result))
RECURSIVE SubstitutePositions(_, _, _)
SubstitutePositions(expression, results, i) ==
    IF i > Len(results)
    THEN expression
    ELSE SubstitutePositions(ReplaceWord(expression, PosToken(i), results[i]), results, i + 1)

\* The criteria outcomes of a rule, in criteria order.
CriteriaResults(visibilityRule, rd) ==
    [i \in DOMAIN visibilityRule.criteria |->
        VisibilityCriterionMet(visibilityRule.criteria[i], rd)]

\* evaluateVisibilityRule: "true", "false", "undefined" (falsy) or "throw".
evaluateVisibilityRule(visibilityRule, rd) ==
    IF ~visibilityRule.present \/ ~visibilityRule.hasCriteria
    THEN "true"
    ELSE LET results == CriteriaResults(visibilityRule, rd)
         IN  IF \E i \in DOMAIN results : results[i] = "throw"
             THEN "throw"
             ELSE IF visibilityRule.booleanFilter # <<>>
             THEN LET lowered == [i \in DOMAIN visibilityRule.booleanFilter |->
                                      toLowerCase(visibilityRule.booleanFilter[i])]
                      expression ==
                          SubstitutePositions(
                              ReplaceWord(ReplaceWord(lowered, "and", "&&"), "or", "||"),
                              results, 1)
                      r == evaluateBooleanExpression(expression)
                  IN  IF r = "throw" THEN "false" ELSE r
             ELSE IF Len(results) > 0 THEN results[1] ELSE "true"

\* ------------------------------------------------------------------------
\* Conditional formatting
\* ------------------------------------------------------------------------

\* What evaluateConditionalFormatRule yields: null, a parsed text style, an
\* icon descriptor, or an exception ("throw"); "pending" before it has ended.
Style(type, fontColor, iconName, iconColor) ==
    [type |-> type, fontColor |-> fontColor, iconName |-> iconName, iconColor |-> iconColor]

StyleNull == Style("null", "", "", "")

StyleThrow == Style("throw", "", "", "")

StylePending == Style("pending", "", "", "")

\* JSON.parse(rule.formatValue): the style object, or "throw" on malformed JSON.
JsonParseStyle(formatValue) ==
    CASE formatValue = "{\"fontColor\":\"red\"}" -> Style("text", "red", "", "")
      [] formatValue = "{\"fontColor\":\"green\"}" -> Style("text", "green", "", "")
      [] OTHER -> StyleThrow

\* A field without a conditionalFormatRuleset.
NoRuleset == [kind |-> "none", type |-> "", value |-> "", hasRules |-> FALSE, rules |-> <<>>]

\* A conditionalFormatRuleset given as a bare developer name.
RulesetName(name) ==
    [kind |-> "string", type |-> "", value |-> name, hasRules |-> FALSE, rules |-> <<>>]

\* A conditionalFormatRuleset given as an object {type, value, rules}.
RulesetObject(type, value, hasRules, rules) ==
    [kind |-> "object", type |-> type, value |-> value, hasRules |-> hasRules, rules |-> rules]

\* An inline text rule {criteria, formatValue}; formatValue "" when absent.
TextRule(hasCriteria, criteria, formatValue) ==
    [hasCriteria |-> hasCriteria, criteria |-> criteria, formatValue |-> formatValue]

\* A rule of a fetched icon rule set.
IconRule(visibilityGroup, visibilityRank, operator, operand, hasIcon, iconName, iconColor) ==
    [visibilityGroup |-> visibilityGroup, visibilityRank |-> visibilityRank,
     operator |-> operator, operand |-> operand, hasIcon |-> hasIcon,
     iconName |-> iconName, iconColor |-> iconColor]

\* What the cache holds for an identifier: nothing, or the fetched value
\* (null, or an object with or without a rules list).
NotCached == [cached |-> FALSE, isNull |-> FALSE, hasRules |-> FALSE, rules |-> <<>>]

IconRuleSet(isNull, hasRules, rules) ==
    [cached |-> TRUE, isNull |-> isNull, hasRules |-> hasRules, rules |-> rules]

\* !isNaN(v) && v !== "" ? Number(v) : v
NumericIfLooksNumeric(v) ==
    IF ~ToNumber(v).nan /\ v # Str("") THEN Num(ToNumber(v).n) ELSE v

\* One criterion of a text rule against recordData.
FormatCriterionMet(criterion, rd) ==
    LET leftFieldApiName == toLowerCase(StripFieldRef(criterion.leftValue))
        leftValue == IF leftFieldApiName \in DOMAIN rd THEN rd[leftFieldApiName] ELSE Undef
        rightValue == criterion.rightValue
        leftNum == NumericIfLooksNumeric(leftValue)
        rightNum == NumericIfLooksNumeric(rightValue)
    IN  CASE criterion.operator = "CONTAINS" -> OptIncludes(leftValue, rightValue)
          [] criterion.operator = "EQUAL" -> BoolStr(StrictEq(leftValue, rightValue))
          [] criterion.operator = "NE" -> BoolStr(~StrictEq(leftValue, rightValue))
          [] criterion.operator = "GT" -> BoolStr(JsLess(rightNum, leftNum))
          [] criterion.operator = "GE" -> BoolStr(JsLessEq(rightNum, leftNum))
          [] criterion.operator = "LE" -> BoolStr(JsLessEq(leftNum, rightNum))
          [] criterion.operator = "LT" -> BoolStr(JsLess(leftNum, rightNum))
          [] OTHER -> "false"

\* rule.criteria.every(...) from criterion i on: it stops at the first criterion
\* that is not met, and an exception in a criterion it reaches ends it.
RECURSIVE AllCriteriaMet(_, _, _)
AllCriteriaMet(criteria, rd, i) ==
    IF i > Len(criteria)
    THEN "true"
    ELSE LET r == FormatCriterionMet(criteria[i], rd)
         IN  IF r = "true" THEN AllCriteriaMet(criteria, rd, i + 1)
             ELSE IF r = "throw" THEN "throw" ELSE "false"

\* The loop over the inline text rules from rule i on.
RECURSIVE EvaluateTextRules(_, _, _)
EvaluateTextRules(rules, rd, i) ==
    IF i > Len(rules)
    THEN StyleNull
    ELSE IF ~rules[i].hasCriteria
    THEN EvaluateTextRules(rules, rd, i + 1)
    ELSE LET met == AllCriteriaMet(rules[i].criteria, rd, 1)
             parsed == JsonParseStyle(rules[i].formatValue)
         IN  IF met = "throw" THEN StyleThrow
             ELSE IF met = "true" /\ rules[i].formatValue # "" /\ parsed # StyleThrow
             THEN parsed
             ELSE EvaluateTextRules(rules, rd, i + 1)

\* The comparator of the rule sort: a goes after b.
IconRuleAfter(a, b) ==
    IF a.visibilityGroup # b.visibilityGroup
    THEN a.visibilityGroup > b.visibilityGroup
    ELSE a.visibilityRank > b.visibilityRank

\* Insert rule r into the sorted sequence so that it follows every rule it
\* does not precede (the sort is stable).
RECURSIVE InsertIconRule(_, _)
InsertIconRule(sorted, r) ==
    IF sorted = <<>>
    THEN <<r>>
    ELSE IF IconRuleAfter(sorted[Len(sorted)], r)
    THEN InsertIconRule(SubSeq(sorted, 1, Len(sorted) - 1), r) \o <<sorted[Len(sorted)]>>
    ELSE sorted \o <<r>>

\* The rules in the order of the fetched rule set.
SortIconRulesAsFetched(iconRules) == iconRules

\* [...iconRules].sort(by visibilityGroup, then visibilityRank)
RECURSIVE SortIconRules(_)
SortIconRules(iconRules) ==
    IF iconRules = <<>>
    THEN <<>>
    ELSE InsertIconRule(SortIconRules(SubSeq(iconRules, 1, Len(iconRules) - 1)),
                        iconRules[Len(iconRules)])

\* Whether a rule's operator/operand comparison matches the field value.
IconRuleMatches(rule, numValue) ==
    LET operand == IF ~ToNumber(rule.operand).nan
                   THEN Num(ToNumber(rule.operand).n) ELSE rule.operand
    IN  CASE rule.operator = "GT" -> JsLess(operand, numValue)
          [] rule.operator = "GE" -> JsLessEq(operand, numValue)
          [] rule.operator = "LT" -> JsLess(numValue, operand)
          [] rule.operator = "LE" -> JsLessEq(numValue, operand)
          [] rule.operator = "EQUAL" -> StrictEq(numValue, operand)
          [] rule.operator = "NE" -> ~StrictEq(numValue, operand)
          [] OTHER -> FALSE

\* The first rule from i on that matches and has an icon.
RECURSIVE FirstIconMatch(_, _, _)
FirstIconMatch(sortedRules, numValue, i) ==
    IF i > Len(sortedRules)
    THEN StyleNull
    ELSE IF IconRuleMatches(sortedRules[i], numValue) /\ sortedRules[i].hasIcon
    THEN Style("icon", "", sortedRules[i].iconName, sortedRules[i].iconColor)
    ELSE FirstIconMatch(sortedRules, numValue, i + 1)

evaluateIconRules(iconRules, fieldId, rd) ==
    LET key == toLowerCase(fieldId)
        fieldValue == IF key \in DOMAIN rd THEN rd[key] ELSE Undef
        numValue == IF ~ToNumber(fieldValue).nan
                    THEN Num(ToNumber(fieldValue).n) ELSE fieldValue
    IN  IF iconRules = <<>> \/ fieldValue = Undef
        THEN StyleNull
        ELSE FirstIconMatch(SortIconRules(iconRules), numValue, 1)

\* The ruleset as evaluateConditionalFormatRule goes on with it: a bare string
\* becomes {type: "icon", value: string}.
NormalizedRuleset(conditionalFormatRuleset) ==
    IF conditionalFormatRuleset.kind = "string"
    THEN RulesetObject("icon", conditionalFormatRuleset.value, FALSE, <<>>)
    ELSE conditionalFormatRuleset

\* Whether the evaluation takes the icon branch.
IsIconRuleset(conditionalFormatRuleset) ==
    /\ conditionalFormatRuleset.kind # "none"
    /\ NormalizedRuleset(conditionalFormatRuleset).type = "icon"
    /\ NormalizedRuleset(conditionalFormatRuleset).value # ""

\* Whether the evaluation has to fetch: the icon branch with nothing (or a
\* falsy value) in the cache for the identifier.
NeedsFetch(conditionalFormatRuleset, cache) ==
    /\ IsIconRuleset(conditionalFormatRuleset)
    /\ LET e == cache[NormalizedRuleset(conditionalFormatRuleset).value]
       IN  ~e.cached \/ e.isNull

\* evaluateConditionalFormatRule from the read of the cache on (after the
\* fetch, when there was one).
FormatFromCache(conditionalFormatRuleset, fieldId, rd, cache) ==
    LET rs == NormalizedRuleset(conditionalFormatRuleset)
        iconRuleSet == IF IsIconRuleset(conditionalFormatRuleset)
                       THEN cache[rs.value] ELSE NotCached
    IN  IF conditionalFormatRuleset.kind = "none"
        THEN StyleNull
        ELSE IF iconRuleSet.cached /\ ~iconRuleSet.isNull /\ iconRuleSet.hasRules
        THEN evaluateIconRules(iconRuleSet.rules, fieldId, rd)
        ELSE IF ~rs.hasRules
        THEN StyleNull
        ELSE EvaluateTextRules(rs.rules, rd, 1)

\* ------------------------------------------------------------------------
\* Objects with ordered string keys
\* ------------------------------------------------------------------------

\* An object is a sequence of entries [k, v] in insertion order.
HasKey(obj, key) == \E i \in DOMAIN obj : obj[i].k = key

KeyIndex(obj, key) == CHOOSE i \in DOMAIN obj : obj[i].k = key

\* obj[key]
Get(obj, key) == obj[KeyIndex(obj, key)].v

\* obj[key] = value: an existing key keeps its place.
Put(obj, key, value) ==
    IF HasKey(obj, key)
    THEN [obj EXCEPT ![KeyIndex(obj, key)] = [k |-> key, v |-> value]]
    ELSE Append(obj, [k |-> key, v |-> value])

\* ------------------------------------------------------------------------
\* The layout document
\* ------------------------------------------------------------------------

\* An item instance of a region: a field instance, a component instance
\* (section, column, blank space) or something else.  The has* flags tell
\* which properties the document gives.
ItemInstance(kind) ==
    [kind |-> kind, hasFieldItem |-> FALSE, fieldItem |-> "", value |-> Undef,
     uiBehavior |-> "", visibilityRule |-> NoRule, conditionalFormatRuleset |-> NoRuleset,
     componentName |-> "", hasIdentifier |-> FALSE, identifier |-> "",
     hasColumns |-> FALSE, columns |-> "", hasLabel |-> FALSE, label |-> "",
     hasBody |-> FALSE, body |-> ""]

FieldInstance(fieldItem, uiBehavior, visibilityRule, conditionalFormatRuleset) ==
    [ItemInstance("field") EXCEPT !.hasFieldItem = TRUE, !.fieldItem = fieldItem,
        !.uiBehavior = uiBehavior, !.visibilityRule = visibilityRule,
        !.conditionalFormatRuleset = conditionalFormatRuleset]

FieldSection(columns, hasLabel, label) ==
    [ItemInstance("component") EXCEPT !.componentName = "flexipage:fieldSection",
        !.hasColumns = TRUE, !.columns = columns, !.hasLabel = hasLabel, !.label = label]

Column(identifier, body) ==
    [ItemInstance("component") EXCEPT !.componentName = "flexipage:column",
        !.hasIdentifier = TRUE, !.identifier = identifier, !.hasBody = TRUE, !.body = body]

BlankSpace(hasIdentifier, identifier) ==
    [ItemInstance("component") EXCEPT !.componentName = "flexipage:blankSpace",
        !.hasIdentifier = hasIdentifier, !.identifier = identifier]

Region(type, name, itemInstances) ==
    [type |-> type, name |-> name, hasItemInstances |-> TRUE, itemInstances |-> itemInstances]

\* The document: null/undefined, an object without flexiPageRegions, an object
\* whose flexiPageRegions is not an array, or an object with a list of regions.
NullDoc == [kind |-> "null", flexiPageRegions |-> <<>>]

NoRegionsDoc == [kind |-> "noRegions", flexiPageRegions |-> <<>>]

NotArrayDoc == [kind |-> "notArray", flexiPageRegions |-> <<>>]

FlexiPage(regions) == [kind |-> "ok", flexiPageRegions |-> regions]

\* ------------------------------------------------------------------------
\* parseFlexiPageJson
\* ------------------------------------------------------------------------

\* fieldItem.replace("Record.", "")
StripRecordPrefix(fieldItem) ==
    CASE fieldItem = "Record.Name" -> "Name"
      [] fieldItem = "Record.Status__c" -> "Status__c"
      [] fieldItem = "Record.Amount__c" -> "Amount__c"
      [] fieldItem = "Record.Score__c" -> "Score__c"
      [] fieldItem = "Record.Stage__c" -> "Stage__c"
      [] fieldItem = "Record.OwnerId" -> "OwnerId"
      [] fieldItem = "Record.OWNERID" -> "OWNERID"
      [] fieldItem = "Record.Id" -> "Id"
      [] fieldItem = "Record.CreatedDate" -> "CreatedDate"
      [] OTHER -> fieldItem

\* parseInt(identifier.replace("flexipage_column", ""), 10) % 2 === 0
ColumnNumberIsEven(identifier) ==
    CASE identifier = "flexipage_column" -> FALSE
      [] identifier = "flexipage_column1" -> FALSE
      [] identifier = "flexipage_column2" -> TRUE
      [] identifier = "flexipage_column3" -> FALSE
      [] identifier = "flexipage_column4" -> TRUE
      [] OTHER -> FALSE

\* `spacer_${itemIndex}`
SpacerId(itemIndex) ==
    CASE itemIndex = 0 -> "spacer_0"
      [] itemIndex = 1 -> "spacer_1"
      [] itemIndex = 2 -> "spacer_2"
      [] itemIndex = 3 -> "spacer_3"
      [] OTHER -> "spacer_n"

\* A slot of the parsed tree.
FieldSlot(value, isRequired, isReadOnly, visibilityRule, conditionalFormatRuleset, order) ==
    [isBlankSpace |-> FALSE, value |-> value, isVisible |-> "true",
     isRequired |-> isRequired, isReadOnly |-> isReadOnly,
     visibilityRule |-> visibilityRule,
     conditionalFormatRuleset |-> conditionalFormatRuleset, order |-> order]

BlankSlot(order) ==
    [isBlankSpace |-> TRUE, value |-> Undef, isVisible |-> "true",
     isRequired |-> FALSE, isReadOnly |-> FALSE, visibilityRule |-> NoRule,
     conditionalFormatRuleset |-> NoRuleset, order |-> order]

\* fieldInstanceProperties.find(value)?.value || ""
ValueOrEmpty(v) == IF Truthy(v) THEN v ELSE Str("")

\* Whether the layout is a simple region-based one.
hasSimpleLayout(regions) ==
    \E r \in DOMAIN regions :
        /\ regions[r].type = "Region"
        /\ regions[r].hasItemInstances
        /\ \E j \in DOMAIN regions[r].itemInstances :
               regions[r].itemInstances[j].kind = "field"

\* The order the simple layout gives the item at (0-based) index `index` of
\* its region.
SimpleOrder(regions, r, index) == index

\* Simple layout: the fields of region r from item j on, put into `fields`.
RECURSIVE SimpleItems(_, _, _, _)
SimpleItems(fields, regions, r, j) ==
    IF j > Len(regions[r].itemInstances)
    THEN fields
    ELSE LET item == regions[r].itemInstances[j]
         IN  IF item.kind = "field"
             THEN SimpleItems(
                      Put(fields, StripRecordPrefix(item.fieldItem),
                          FieldSlot(ValueOrEmpty(item.value), FALSE, FALSE, NoRule,
                                    NoRuleset, SimpleOrder(regions, r, j - 1))),
                      regions, r, j + 1)
             ELSE SimpleItems(fields, regions, r, j + 1)

\* Simple layout: the regions from r on.
RECURSIVE SimpleRegions(_, _, _)
SimpleRegions(fields, regions, r) ==
    IF r > Len(regions)
    THEN fields
    ELSE IF regions[r].type = "Region" /\ regions[r].hasItemInstances
    THEN SimpleRegions(SimpleItems(fields, regions, r, 1), regions, r + 1)
    ELSE SimpleRegions(fields, regions, r + 1)

\* The items of all regions, flattened, as [r, j, item] in document order.
RECURSIVE AllItems(_, _)
AllItems(regions, r) ==
    IF r > Len(regions)
    THEN <<>>
    ELSE [j \in DOMAIN regions[r].itemInstances |->
             [r |-> r, j |-> j, item |-> regions[r].itemInstances[j]]]
         \o AllItems(regions, r + 1)

IsComponent(item, componentName) ==
    item.kind = "component" /\ item.componentName = componentName

\* The section label: the label property's value, "Unnamed Section" when the
\* value is empty.
SectionLabel(item) == IF item.label # "" THEN item.label ELSE "Unnamed Section"

\* First pass: the field sections, from flattened item i on.
RECURSIVE CollectSections(_, _, _)
CollectSections(sections, items, i) ==
    IF i > Len(items)
    THEN sections
    ELSE LET item == items[i].item
         IN  IF IsComponent(item, "flexipage:fieldSection") /\ ~HasKey(sections, item.columns)
             THEN CollectSections(
                      Put(sections, item.columns,
                          [label |-> SectionLabel(item), columns |-> <<>>]),
                      items, i + 1)
             ELSE CollectSections(sections, items, i + 1)

\* Second pass: the columns of the Facet regions, from flattened item i on.
RECURSIVE CollectColumns(_, _, _, _)
CollectColumns(sections, regions, items, i) ==
    IF i > Len(items)
    THEN sections
    ELSE LET item == items[i].item
             region == regions[items[i].r]
         IN  IF /\ region.type = "Facet"
                /\ IsComponent(item, "flexipage:column")
                /\ HasKey(sections, region.name)
             THEN LET section == Get(sections, region.name)
                      side == IF ColumnNumberIsEven(item.identifier) THEN "right" ELSE "left"
                  IN  CollectColumns(
                          Put(sections, region.name,
                              [section EXCEPT !.columns =
                                  Put(section.columns, item.body,
                                      [side |-> side, fields |-> <<>>])]),
                          regions, items, i + 1)
             ELSE CollectColumns(sections, regions, items, i + 1)

\* The first section that has a column `columnFacetId`, 0 when there is none.
OwningSection(sections, columnFacetId) ==
    IF \E i \in DOMAIN sections : HasKey(sections[i].v.columns, columnFacetId)
    THEN CHOOSE i \in DOMAIN sections :
             /\ HasKey(sections[i].v.columns, columnFacetId)
             /\ \A j \in 1..(i - 1) : ~HasKey(sections[j].v.columns, columnFacetId)
    ELSE 0

\* sections[...].columns[columnFacetId].fields[key] = slot
PutSlot(sections, s, columnFacetId, key, slot) ==
    LET section == sections[s].v
        column == Get(section.columns, columnFacetId)
    IN  [sections EXCEPT ![s].v.columns =
            Put(section.columns, columnFacetId,
                [column EXCEPT !.fields = Put(column.fields, key, slot)])]

\* Third pass: the fields and spacers of the Facet regions, from flattened
\* item i on; the order of a slot is its item's (0-based) index in its region.
RECURSIVE AssignFields(_, _, _, _)
AssignFields(sections, regions, items, i) ==
    IF i > Len(items)
    THEN sections
    ELSE LET item == items[i].item
             region == regions[items[i].r]
             itemIndex == items[i].j - 1
             s == OwningSection(sections, region.name)
         IN  IF region.type = "Facet" /\ s # 0
             THEN IF item.kind = "field"
                  THEN AssignFields(
                           PutSlot(sections, s, region.name,
                                   StripRecordPrefix(item.fieldItem),
                                   FieldSlot(ValueOrEmpty(item.value),
                                             item.uiBehavior = "required",
                                             item.uiBehavior = "readonly",
                                             item.visibilityRule,
                                             item.conditionalFormatRuleset, itemIndex)),
                           regions, items, i + 1)
                  ELSE IF IsComponent(item, "flexipage:blankSpace")
                  THEN AssignFields(
                           PutSlot(sections, s, region.name,
                                   IF item.hasIdentifier /\ item.identifier # ""
                                   THEN item.identifier ELSE SpacerId(itemIndex),
                                   BlankSlot(itemIndex)),
                           regions, items, i + 1)
                  ELSE AssignFields(sections, regions, items, i + 1)
             ELSE AssignFields(sections, regions, items, i + 1)

\* Whether a section has a column with at least one slot.
SectionHasFields(entry) == \E c \in DOMAIN entry.v.columns : entry.v.columns[c].v.fields # <<>>

\* Whether the complex parse meets a missing property it dereferences.
ComplexParseThrows(regions) ==
    \/ \E r \in DOMAIN regions : ~regions[r].hasItemInstances
    \/ \E r \in DOMAIN regions : \E j \in DOMAIN regions[r].itemInstances :
           LET item == regions[r].itemInstances[j]
           IN  \/ IsComponent(item, "flexipage:fieldSection")
                      /\ (~item.hasColumns \/ ~item.hasLabel)
               \/ regions[r].type = "Facet" /\ IsComponent(item, "flexipage:column")
                      /\ (~item.hasBody \/ ~item.hasIdentifier)
               \/ regions[r].type = "Facet" /\ item.kind = "field" /\ ~item.hasFieldItem
                      /\ OwningSection(
                             CollectColumns(
                                 CollectSections(<<>>, AllItems(regions, 1), 1),
                                 regions, AllItems(regions, 1), 1),
                             regions[r].name) # 0

\* What the parser gives back: the section map, or an exception.
Parsed(sections) == [threw |-> FALSE, sections |-> sections]

ParseThrew == [threw |-> TRUE, sections |-> <<>>]

\* A guard that tests the document for null only.
HasRegionListNullOnly(flexiPageJson) == flexiPageJson.kind # "null"

\* A parser that empties the list of regions it has gone through.
DocumentDrained(flexiPageJson) ==
    IF flexiPageJson.kind = "ok" THEN [flexiPageJson EXCEPT !.flexiPageRegions = <<>>]
    ELSE flexiPageJson

\* The guard at the head of parseFlexiPageJson: the document is not null, it
\* has flexiPageRegions, and flexiPageRegions is an array.
HasRegionList(flexiPageJson) ==
    /\ flexiPageJson.kind # "null"
    /\ flexiPageJson.kind # "noRegions"
    /\ flexiPageJson.kind # "notArray"

\* The document as a call of parseFlexiPageJson leaves it: the function reads
\* its argument and writes only to its own `sections`.
DocumentAfterParse(flexiPageJson) == flexiPageJson

parseFlexiPageJson(flexiPageJson) ==
    LET regions == flexiPageJson.flexiPageRegions
    IN  IF ~HasRegionList(flexiPageJson)
        THEN Parsed(<<>>)
        ELSE IF flexiPageJson.kind # "ok"
        THEN ParseThrew    \* flexiPageRegions.some of something that is no array
        ELSE IF hasSimpleLayout(regions)
        THEN IF \E r \in DOMAIN regions :
                    /\ regions[r].type = "Region" /\ regions[r].hasItemInstances
                    /\ \E j \in DOMAIN regions[r].itemInstances :
                           /\ regions[r].itemInstances[j].kind = "field"
                           /\ ~regions[r].itemInstances[j].hasFieldItem
             THEN ParseThrew
             ELSE Parsed(<<[k |-> "defaultSection",
                            v |-> [label |-> "Information",
                                   columns |-> <<[k |-> "defaultColumn",
                                                  v |-> [side |-> "left",
                                                         fields |-> SimpleRegions(<<>>, regions, 1)]]>>]]>>)
        ELSE IF ComplexParseThrows(regions)
        THEN ParseThrew
        ELSE LET items == AllItems(regions, 1)
                 first == CollectSections(<<>>, items, 1)
                 second == CollectColumns(first, regions, items, 1)
                 third == AssignFields(second, regions, items, 1)
             IN  Parsed(SelectSeq(third, SectionHasFields))

\* ------------------------------------------------------------------------
\* The component's helpers
\* ------------------------------------------------------------------------

\* The field names that are read-only and, in edit mode, excluded.
readOnlyFields ==
    <<"CreatedById", "LastModifiedById", "Id", "SystemModstamp", "CreatedDate",
      "LastModifiedDate", "OwnerId">>

\* String.prototype.trim over the names the model uses.
Trim(s) ==
    CASE s = " Status__c" -> "Status__c"
      [] s = " Name " -> "Name"
      [] OTHER -> s

\* The list with the read-only system fields in either mode.
ExcludedFieldsListInEitherMode(excludedFields, isReadOnly) ==
    [i \in DOMAIN excludedFields |-> Trim(excludedFields[i])] \o readOnlyFields

\* The list the getter builds before it is normalized: the user's names
\* (this.excludedFields.split(",").map(trim); none for the empty string), then,
\* in edit mode only, the read-only system fields.
ExcludedFieldsList(excludedFields, isReadOnly) ==
    [i \in DOMAIN excludedFields |-> Trim(excludedFields[i])]
        \o (IF ~isReadOnly THEN readOnlyFields ELSE <<>>)

\* A getter that leaves the names as they are written.
allExcludedFieldsAsWritten(excludedFields, isReadOnly) ==
    LET excludedFieldsList == ExcludedFieldsList(excludedFields, isReadOnly)
    IN  { excludedFieldsList[i] : i \in DOMAIN excludedFieldsList }

\* get allExcludedFields(): the list, every name lower-cased.
allExcludedFields(excludedFields, isReadOnly) ==
    LET excludedFieldsList == ExcludedFieldsList(excludedFields, isReadOnly)
    IN  { toLowerCase(excludedFieldsList[i]) : i \in DOMAIN excludedFieldsList }

\* Every slot of the tree as [section, column, fieldId, slot], in tree order.
RECURSIVE AllSlotsFrom(_, _, _)
AllSlotsFrom(sections, s, c) ==
    IF s > Len(sections)
    THEN <<>>
    ELSE IF c > Len(sections[s].v.columns)
    THEN AllSlotsFrom(sections, s + 1, 1)
    ELSE LET column == sections[s].v.columns[c]
         IN  [f \in DOMAIN column.v.fields |->
                 [section |-> sections[s].k, column |-> column.k,
                  fieldId |-> column.v.fields[f].k, slot |-> column.v.fields[f].v]]
             \o AllSlotsFrom(sections, s, c + 1)

AllSlots(sections) == AllSlotsFrom(sections, 1, 1)

\* Whether removeExcludedFields deletes the slot keyed fieldId.
IsExcluded(fieldId, excluded) == toLowerCase(fieldId) \in excluded

\* removeExcludedFields: a deep copy of the tree without the excluded slots.
removeExcludedFields(parsedSections, excluded) ==
    LET Kept(e) == ~IsExcluded(e.k, excluded)
    IN  [s \in DOMAIN parsedSections |->
            [parsedSections[s] EXCEPT !.v.columns =
                [c \in DOMAIN parsedSections[s].v.columns |->
                    [parsedSections[s].v.columns[c] EXCEPT !.v.fields =
                        SelectSeq(parsedSections[s].v.columns[c].v.fields, Kept)]]]]

\* [...new Set(ids)]: the first occurrence of every id, in order.
RECURSIVE Unique(_)
Unique(ids) ==
    IF ids = <<>>
    THEN <<>>
    ELSE LET rest == Unique(SubSeq(ids, 1, Len(ids) - 1))
             last == ids[Len(ids)]
         IN  IF \E i \in DOMAIN rest : rest[i] = last THEN rest ELSE Append(rest, last)

\* collectFields: the ids of the slots that are neither excluded nor blank.
collectFields(parsedSections, excluded) ==
    LET IsActive(e) == toLowerCase(e.fieldId) \notin excluded /\ ~e.slot.isBlankSpace
        active == SelectSeq(AllSlots(parsedSections), IsActive)
    IN  Unique([i \in DOMAIN active |-> active[i].fieldId])

\* A calculateVisibility that leaves every flag as the parser set it.
calculateVisibilityNone(parsedSections, rd) == parsedSections

\* calculateVisibility: the flag of every non-blank slot that has a rule is
\* what evaluateVisibilityRule yields.
calculateVisibility(parsedSections, rd) ==
    LET Flag(slot) ==
            IF ~slot.isBlankSpace /\ slot.visibilityRule.present
            THEN [slot EXCEPT !.isVisible = evaluateVisibilityRule(slot.visibilityRule, rd)]
            ELSE slot
    IN  [s \in DOMAIN parsedSections |->
            [parsedSections[s] EXCEPT !.v.columns =
                [c \in DOMAIN parsedSections[s].v.columns |->
                    [parsedSections[s].v.columns[c] EXCEPT !.v.fields =
                        [f \in DOMAIN parsedSections[s].v.columns[c].v.fields |->
                            [k |-> parsedSections[s].v.columns[c].v.fields[f].k,
                             v |-> Flag(parsedSections[s].v.columns[c].v.fields[f].v)]]]]]]

\* Whether calculateVisibility ends with an exception.
calculateVisibilityThrows(parsedSections, rd) ==
    \E i \in DOMAIN AllSlots(parsedSections) :
        LET slot == AllSlots(parsedSections)[i].slot
        IN  /\ ~slot.isBlankSpace
            /\ slot.visibilityRule.present
            /\ evaluateVisibilityRule(slot.visibilityRule, rd) = "throw"

\* this._recordId.length
RecordIdLength(recordId) ==
    CASE recordId = "" -> 0
      [] recordId = "001xx" -> 5
      [] recordId = "001xx000003DGb2AAG" -> 18
      [] recordId = "001xx000003DGb3AAG" -> 18
      [] OTHER -> 18

isNewRecord(recordId) == recordId = "" \/ RecordIdLength(recordId) < 15

\* The value string kept as it was written.
ProcessedValueAsText(value) == Str(value)

\* The coercion parseDefaultValues applies to a value string.
ProcessedValue(value) ==
    CASE toLowerCase(value) = "true" -> Bool(TRUE)
      [] toLowerCase(value) = "false" -> Bool(FALSE)
      [] ~StrToNumber(value).nan /\ value # "" -> Num(StrToNumber(value).n)
      [] OTHER -> Str(value)

\* parseDefaultValues().lowercase: defaultValues is the configured string as
\* its sequence of [fieldName, value] pairs; a later pair for the same key wins.
RECURSIVE parseDefaultValues(_)
parseDefaultValues(defaultValues) ==
    IF defaultValues = <<>>
    THEN <<>>
    ELSE LET pair == defaultValues[Len(defaultValues)]
             rest == parseDefaultValues(SubSeq(defaultValues, 1, Len(defaultValues) - 1))
         IN  IF pair.fieldName # ""
             THEN Put(rest, toLowerCase(pair.fieldName), ProcessedValue(pair.value))
             ELSE rest

\* rd[key] = value
DataPut(rd, key, value) ==
    [x \in DOMAIN rd \cup {key} |-> IF x = key THEN value ELSE rd[x]]

\* Whether applyDefaultValues writes the default of the slot keyed fieldId.
DefaultApplies(fieldId, slot, lookupValues, recordId) ==
    /\ ~slot.isBlankSpace
    /\ HasKey(lookupValues, toLowerCase(fieldId))
    /\ (isNewRecord(recordId) \/ ~Truthy(slot.value))

\* applyDefaultValues, its effect on the tree.
applyDefaultValuesTree(parsedSections, lookupValues, recordId) ==
    LET Apply(fieldId, slot) ==
            IF DefaultApplies(fieldId, slot, lookupValues, recordId)
            THEN [slot EXCEPT !.value = Get(lookupValues, toLowerCase(fieldId))]
            ELSE slot
    IN  [s \in DOMAIN parsedSections |->
            [parsedSections[s] EXCEPT !.v.columns =
                [c \in DOMAIN parsedSections[s].v.columns |->
                    [parsedSections[s].v.columns[c] EXCEPT !.v.fields =
                        [f \in DOMAIN parsedSections[s].v.columns[c].v.fields |->
                            [k |-> parsedSections[s].v.columns[c].v.fields[f].k,
                             v |-> Apply(parsedSections[s].v.columns[c].v.fields[f].k,
                                         parsedSections[s].v.columns[c].v.fields[f].v)]]]]]]

\* applyDefaultValues, its effect on recordData: slot i of the tree onwards.
RECURSIVE applyDefaultValuesData(_, _, _, _, _)
applyDefaultValuesData(rd, slots, lookupValues, recordId, i) ==
    IF i > Len(slots)
    THEN rd
    ELSE IF DefaultApplies(slots[i].fieldId, slots[i].slot, lookupValues, recordId)
    THEN applyDefaultValuesData(
             DataPut(rd, toLowerCase(slots[i].fieldId),
                     Get(lookupValues, toLowerCase(slots[i].fieldId))),
             slots, lookupValues, recordId, i + 1)
    ELSE applyDefaultValuesData(rd, slots, lookupValues, recordId, i + 1)

\* An object without keys.
EmptyObject == [x \in {} |-> Undef]

\* mapFieldValues: the delivered values (a list of [k, v] entries in key
\* order) under lower-cased keys; a later key that lower-cases alike wins.
RECURSIVE mapFieldValues(_)
mapFieldValues(data) ==
    IF data = <<>>
    THEN EmptyObject
    ELSE DataPut(mapFieldValues(SubSeq(data, 1, Len(data) - 1)),
                 toLowerCase(data[Len(data)].k), data[Len(data)].v)

\* The lookup map of parseDefaultValues as recordData ({ ...lookupValues }).
RECURSIVE ObjectOf(_)
ObjectOf(entries) ==
    IF entries = <<>>
    THEN EmptyObject
    ELSE DataPut(ObjectOf(SubSeq(entries, 1, Len(entries) - 1)),
                 entries[Len(entries)].k, entries[Len(entries)].v)

\* this.recordData[key]
DataGet(rd, key) == IF key \in DOMAIN rd THEN rd[key] ELSE Undef

\* ------------------------------------------------------------------------
\* processSections
\* ------------------------------------------------------------------------

\* What the wire delivers about a field; absent fields have no metadata.
Metadata(type, referenceNameValue) == [type |-> type, referenceNameValue |-> referenceNameValue]

NoMetadata == Metadata("", "")

\* this.fieldMetadata[key] || {}
MetaGet(meta, key) == IF key \in DOMAIN meta THEN meta[key] ELSE NoMetadata

\* sanitizeHeader over the labels the model uses.
sanitizeHeader(header) ==
    CASE header = "account_details" -> "Account Details"
      [] header = "@@@SFDCSystem_InformationSFDC@@@" -> "System Information"
      [] OTHER -> header

\* readOnlyFields.includes(fieldId)
InReadOnlyFields(fieldId) == \E i \in DOMAIN readOnlyFields : readOnlyFields[i] = fieldId

\* Insert entry e into the sequence sorted by order so that it follows every
\* entry whose order is not greater (Array.prototype.sort is stable).
RECURSIVE InsertByOrder(_, _)
InsertByOrder(sorted, e) ==
    IF sorted = <<>>
    THEN <<e>>
    ELSE IF sorted[Len(sorted)].v.order > e.v.order
    THEN Append(InsertByOrder(SubSeq(sorted, 1, Len(sorted) - 1), e), sorted[Len(sorted)])
    ELSE Append(sorted, e)

\* entries.sort((a, b) => (a[1].order || 0) - (b[1].order || 0))
RECURSIVE SortByOrder(_)
SortByOrder(entries) ==
    IF entries = <<>>
    THEN <<>>
    ELSE InsertByOrder(SortByOrder(SubSeq(entries, 1, Len(entries) - 1)),
                       entries[Len(entries)])

IsVisibleEntry(e) == e.v.isVisible = "true"

\* The visible slots of a column as the parser's object lists them.
VisibleFieldsUnsorted(column) == SelectSeq(column.fields, IsVisibleEntry)

\* The visible slots of a column, sorted by order.
VisibleFields(column) == SortByOrder(SelectSeq(column.fields, IsVisibleEntry))

\* The enhanced field of a visible slot as it stands when processSections
\* first suspends: formatStyle is "pending" where the rule set is being fetched.
EnhancedField(fieldId, field, rd, meta, cache) ==
    LET metadata == MetaGet(meta, toLowerCase(fieldId))
        fieldValue == DataGet(rd, toLowerCase(fieldId))
    IN  IF field.isBlankSpace
        THEN [fieldId |-> fieldId, isBlankSpace |-> TRUE, value |-> Undef,
              displayValue |-> Undef, type |-> "", referenceNameValue |-> "",
              isEditable |-> FALSE, isReadOnly |-> FALSE, formatStyle |-> StyleNull,
              conditionalFormatRuleset |-> NoRuleset]
        ELSE [fieldId |-> fieldId, isBlankSpace |-> FALSE, value |-> fieldValue,
              displayValue |->
                  IF metadata.type = "REFERENCE" /\ metadata.referenceNameValue # ""
                  THEN Str(metadata.referenceNameValue) ELSE fieldValue,
              type |-> metadata.type,
              referenceNameValue |-> metadata.referenceNameValue,
              isEditable |-> ~InReadOnlyFields(fieldId) /\ ~field.isReadOnly,
              isReadOnly |-> field.isReadOnly,
              formatStyle |->
                  IF field.conditionalFormatRuleset.kind = "none"
                  THEN StyleNull
                  ELSE IF NeedsFetch(field.conditionalFormatRuleset, cache)
                  THEN StylePending
                  ELSE FormatFromCache(field.conditionalFormatRuleset, fieldId, rd, cache),
              conditionalFormatRuleset |-> field.conditionalFormatRuleset]

\* A column as processSections builds it.
DraftColumn(column, rd, meta, cache) ==
    LET visibleFields == VisibleFields(column)
    IN  [side |-> column.side,
         fieldIds |-> [i \in DOMAIN visibleFields |-> visibleFields[i].k],
         fields |-> visibleFields,
         enhancedFields |->
             [i \in DOMAIN visibleFields |->
                 EnhancedField(visibleFields[i].k, visibleFields[i].v, rd, meta, cache)]]

\* The sections as processSections builds them, before the empty columns and
\* sections are dropped.
DraftSections(parsedSections, rd, meta, cache) ==
    [s \in DOMAIN parsedSections |->
        [sectionName |-> sanitizeHeader(parsedSections[s].v.label),
         sectionId |-> parsedSections[s].k,
         columns |-> [c \in DOMAIN parsedSections[s].v.columns |->
                         DraftColumn(parsedSections[s].v.columns[c].v, rd, meta, cache)],
         isOpen |-> TRUE]]

\* The places <<section, column, field>> of a draft whose style is `style`.
StyledPlaces(draft, style) ==
    { <<s, c, f>> \in
        UNION { UNION { { <<s1, c1, f1>> : f1 \in DOMAIN draft[s1].columns[c1].enhancedFields } :
                        c1 \in DOMAIN draft[s1].columns } : s1 \in DOMAIN draft } :
        draft[s].columns[c].enhancedFields[f].formatStyle = style }

HasFieldIds(column) == column.fieldIds # <<>>

HasColumns(section) == section.columns # <<>>

\* A tail of processSections that keeps every column and every section.
FinishSectionsKeepingEmpty(draft) ==
    [s \in DOMAIN draft |->
        [sectionName |-> draft[s].sectionName, sectionId |-> draft[s].sectionId,
         columns |->
             [c \in DOMAIN draft[s].columns |->
                 [side |-> draft[s].columns[c].side,
                  fieldIds |-> draft[s].columns[c].fieldIds,
                  fields |-> draft[s].columns[c].fields,
                  enhancedFields |-> draft[s].columns[c].enhancedFields,
                  class |-> IF Len(draft[s].columns) = 1
                            THEN "slds-col slds-size_1-of-1"
                            ELSE "slds-col slds-size_1-of-2 slds-p-horizontal_small"]],
         isOpen |-> draft[s].isOpen]]

\* The tail of processSections: the columns without entries and the sections
\* without columns are dropped, and the width class is set.
FinishSections(draft) ==
    LET WithClass(section) ==
            LET filteredColumns == SelectSeq(section.columns, HasFieldIds)
            IN  [sectionName |-> section.sectionName, sectionId |-> section.sectionId,
                 columns |->
                     [c \in DOMAIN filteredColumns |->
                         [side |-> filteredColumns[c].side,
                          fieldIds |-> filteredColumns[c].fieldIds,
                          fields |-> filteredColumns[c].fields,
                          enhancedFields |-> filteredColumns[c].enhancedFields,
                          class |-> IF Len(filteredColumns) = 1
                                    THEN "slds-col slds-size_1-of-1"
                                    ELSE "slds-col slds-size_1-of-2 slds-p-horizontal_small"]],
                 isOpen |-> section.isOpen]
    IN  SelectSeq([s \in DOMAIN draft |-> WithClass(draft[s])], HasColumns)

\* get sectionsWithKey(), given this.sections: every enhanced field is copied
\* with fieldData.displayValue set to fieldData.value (uniqueKey, which holds
\* the time of the call, is left out).
sectionsWithKey(secs) ==
    [s \in DOMAIN secs |->
        [secs[s] EXCEPT !.columns =
            [c \in DOMAIN secs[s].columns |->
                [secs[s].columns[c] EXCEPT !.enhancedFields =
                    [i \in DOMAIN secs[s].columns[c].enhancedFields |->
                        [secs[s].columns[c].enhancedFields[i] EXCEPT
                            !.displayValue = secs[s].columns[c].enhancedFields[i].value]]]]]]

\* ------------------------------------------------------------------------
\* State
\* ------------------------------------------------------------------------

VARIABLES
    \* the component's public properties
    recordId,              \* this._recordId ("" when not set)
    isReadOnly,            \* @api isReadOnly
    excludedFields,        \* @api excludedFields, as the names between its commas
    defaultValues,         \* @api defaultValues, as its [fieldName, value] pairs
    altField,              \* @api altField ("" when not set)
    \* the component's fields
    config,                \* this.config (NullDoc while undefined)
    recordData,            \* this.recordData: lower-cased field id -> value
    fieldMetadata,         \* this.fieldMetadata: lower-cased field id -> metadata
    sections,              \* this.sections, the published view model
    fields,                \* this.fields, the collected active field ids
    fieldApiNamesForWire,  \* this.fieldApiNamesForWire
    isLoading,             \* this.isLoading
    error,                 \* whether this.error is set
    editMode,              \* this.editMode
    refreshKey,            \* this.refreshKey
    iconFormatCache,       \* this.iconFormatCache: identifier -> fetched rule set
    \* the component's environment
    connected,             \* whether connectedCallback has run
    layoutFetch,           \* the getFlexiPageMetadata call: "none" (not made, or handled),
                           \* "new" / "existing" (in flight), "failed" (ended in a catch)
    wirePending,           \* whether the wire adapter owes wiredFieldValues a result
    deliveries,            \* how many results the wire adapter has delivered
    saves,                 \* how many saves have succeeded
    passes,                \* the processSections calls suspended on a rule-set fetch
    published,             \* the locals of the assembly that gave this.sections
    \* a call of evaluateVisibilityRule on its own
    visRule,               \* its argument
    visResult,             \* what it returned ("none" before the call)
    \* a call of evaluateConditionalFormatRule on its own
    fmtRuleset,            \* its first argument
    fmtFieldId,            \* its second argument
    fmtPc,                 \* where the call is: "idle", "fetching", "done"
    fmtResult,             \* what it returned (StylePending before it has)
    \* calls of parseFlexiPageJson on their own (the document is config)
    docBefore,             \* the document as it was before the first call
    parseResults,          \* what the calls returned, in order
    \* the property editor (flexipageRecordFormCPE)
    objectApiName,         \* its objectApiName ("" while undefined)
    selectedFlexiPage,     \* its selectedFlexiPage ("" while undefined or null)
    defaultFieldValues,    \* the saved defaults: field name -> value ("" for no key)
    tempDefaultValues,     \* the modal's working copy: field name -> value
    defaultValueFields,    \* the entries the modal shows, in order
    showDefaultValuesModal,\* whether the default-values modal is open
    selectedRecordVariable,\* the record variable chosen in the modal
    fieldLoads             \* the loadFields calls awaiting Apex, with what follows them

propVars == <<recordId, isReadOnly, excludedFields, defaultValues, altField>>

fieldVars ==
    <<config, recordData, fieldMetadata, sections, fields, fieldApiNamesForWire,
      isLoading, error, editMode, refreshKey, iconFormatCache>>

envVars == <<connected, layoutFetch, wirePending, deliveries, saves, passes, published>>

visVars == <<visRule, visResult>>

fmtVars == <<fmtRuleset, fmtFieldId, fmtPc, fmtResult>>

parseVars == <<docBefore, parseResults>>

cpeVars ==
    <<objectApiName, selectedFlexiPage, defaultFieldValues, tempDefaultValues,
      defaultValueFields, showDefaultValuesModal, selectedRecordVariable, fieldLoads>>

vars == <<propVars, fieldVars, envVars, visVars, fmtVars, parseVars, cpeVars>>

\* @api enableVisibilityRules: the property is left at its default; no
\* method of the component reads it.
enableVisibilityRules == FALSE

\* The rule-set identifiers the layouts refer to.
IconSetIds == {"IconSetA", "IconSetB"}

\* Nothing assembled yet.
NotPublished == [kind |-> "none", parsed |-> <<>>, rd |-> EmptyObject]

\* The fields of a component that has just been constructed, config and
\* recordData aside.
FreshFields ==
    /\ fieldMetadata = EmptyObject
    /\ sections = <<>>
    /\ fields = <<>>
    /\ fieldApiNamesForWire = <<>>
    /\ isLoading = FALSE
    /\ error = FALSE
    /\ editMode = FALSE
    /\ refreshKey = 0
    /\ iconFormatCache = [id \in IconSetIds |-> NotCached]

FreshEnv ==
    /\ connected = FALSE
    /\ layoutFetch = "none"
    /\ wirePending = FALSE
    /\ deliveries = 0
    /\ saves = 0
    /\ passes = <<>>
    /\ published = NotPublished

DefaultProps ==
    /\ recordId = ""
    /\ isReadOnly = FALSE
    /\ excludedFields = <<>>
    /\ defaultValues = <<>>
    /\ altField = ""

NoVisCall ==
    /\ visRule = NoRule
    /\ visResult = "none"

NoFmtCall ==
    /\ fmtRuleset = NoRuleset
    /\ fmtFieldId = ""
    /\ fmtPc = "idle"
    /\ fmtResult = StylePending

NoParseCall ==
    /\ docBefore = NullDoc
    /\ parseResults = <<>>

\* The fields the property editor finds on the layout it is given.
EditorFields == <<"Name", "Status__c">>

EditorFieldNames == {EditorFields[i] : i \in DOMAIN EditorFields}

\* An object of defaults without any key.
NoDefaults == [f \in EditorFieldNames |-> ""]

\* The property editor as constructed.
NoEditor ==
    /\ objectApiName = ""
    /\ selectedFlexiPage = ""
    /\ defaultFieldValues = NoDefaults
    /\ tempDefaultValues = NoDefaults
    /\ defaultValueFields = <<>>
    /\ showDefaultValuesModal = FALSE
    /\ selectedRecordVariable = ""
    /\ fieldLoads = <<>>

\* The keys recordData may hold.
DataKeys == {"name", "status__c", "amount__c", "score__c", "stage__c", "ownerid"}

EmptyRecordData == [k \in DataKeys |-> Undef]

\* ------------------------------------------------------------------------
\* The visibility evaluator on its own: a rule and a record are drawn, and
\* evaluateVisibilityRule is applied to them.
\* ------------------------------------------------------------------------

MaxCriteria == 3

MaxRichCriteria == 2

\* Criteria over Status__c whose outcomes are decided by the record alone.
StatusCriteria ==
    { Criterion("{!Record.Status__c}", op, Str("New")) : op \in {"EQUAL", "NE"} }

\* Criteria over every operator, present and absent fields, strings and numbers.
RichCriteria ==
    { Criterion(l, op, r) :
        l \in {"{!Record.Status__c}", "{!Record.Amount__c}", "{!Record.Missing__c}"},
        op \in {"EQUAL", "NE", "GT", "GE", "LT", "LE", "CONTAINS"},
        r \in {Str("New"), Str("Clo"), Num(50), Str("100")} }

SeqsUpTo(S, n) == UNION { [1..k -> S] : k \in 0..n }

\* The operands put into the slots of the filter shapes: positions 1..4, an
\* unknown word, a literal zero and the empty operand.
FilterOperands == { <<"1">>, <<"2">>, <<"3">>, <<"4">>, <<"X">>, <<"0">>, <<>> }

\* The filter shapes: a; a AND b; a OR b; a and b; a AND b OR c; a OR b AND c;
\* a AND (b OR c); (a OR b) AND c.
FilterShapes ==
    { a : a \in FilterOperands \ {<<>>} }
    \cup { a \o <<op>> \o b : a \in FilterOperands, b \in FilterOperands,
                              op \in {"AND", "OR", "and"} }
    \cup { a \o <<"AND">> \o b \o <<"OR">> \o c :
              a \in FilterOperands, b \in FilterOperands, c \in FilterOperands }
    \cup { a \o <<"OR">> \o b \o <<"AND">> \o c :
              a \in FilterOperands, b \in FilterOperands, c \in FilterOperands }
    \cup { a \o <<"AND", "(">> \o b \o <<"OR">> \o c \o <<")">> :
              a \in FilterOperands, b \in FilterOperands, c \in FilterOperands }
    \cup { <<"(">> \o a \o <<"OR">> \o b \o <<")", "AND">> \o c :
              a \in FilterOperands, b \in FilterOperands, c \in FilterOperands }

VisRecords ==
    { [EmptyRecordData EXCEPT !["status__c"] = st, !["amount__c"] = am] :
        st \in {Str("New"), Str("Closed"), Undef}, am \in {Num(100), Str("30"), Undef} }

InitVis ==
    /\ DefaultProps
    /\ FreshFields
    /\ config = NullDoc
    /\ FreshEnv
    /\ NoFmtCall
    /\ NoParseCall
    /\ visResult = "none"
    /\ \/ /\ recordData = [EmptyRecordData EXCEPT !["status__c"] = Str("New")]
          /\ \E cs \in SeqsUpTo(StatusCriteria, MaxCriteria), f \in FilterShapes :
                 visRule = VisibilityRule(cs, f)
       \/ /\ recordData \in VisRecords
          /\ \/ \E cs \in SeqsUpTo(RichCriteria, MaxRichCriteria) :
                    visRule = VisibilityRule(cs, <<>>)
             \/ visRule = NoRule
             \/ visRule = [NoRule EXCEPT !.present = TRUE]
    /\ NoEditor

\* A call of evaluateVisibilityRule(visRule).
EvaluateVisibility ==
    /\ visResult = "none"
    /\ visResult' = evaluateVisibilityRule(visRule, recordData)
    /\ UNCHANGED <<propVars, fieldVars, envVars, visRule, fmtVars, parseVars, cpeVars>>

NextVis == EvaluateVisibility

SpecVis == InitVis /\ [][NextVis]_vars

\* ------------------------------------------------------------------------
\* Claims about the visibility evaluator
\* ------------------------------------------------------------------------

\* The outcomes of the rule's criteria as booleans (position i is true).
Outcome(i) == CriteriaResults(visRule, recordData)[i] = "true"

\* The filter "1 AND (2 OR 3)" of Scenario E.
ScenarioEFilter == <<"1", "AND", "(", "2", "OR", "3", ")">>

\* C1: a filter with parenthesised grouping is evaluated according to the
\* grouping: "1 AND (2 OR 3)" over three criteria yields the truth value of
\* o1 /\ (o2 \/ o3), true for the outcomes [true, false, true].
C1_GroupedFilterFollowsGrouping ==
    ( /\ visResult # "none"
      /\ visRule.booleanFilter = ScenarioEFilter
      /\ Len(visRule.criteria) = 3 )
    => visResult = BoolStr(Outcome(1) /\ (Outcome(2) \/ Outcome(3)))

\* The operands left after the positional substitution and the split on || and &&.
SubstitutedOperands ==
    LET lowered == [i \in DOMAIN visRule.booleanFilter |->
                        toLowerCase(visRule.booleanFilter[i])]
        expression ==
            SubstitutePositions(
                ReplaceWord(ReplaceWord(lowered, "and", "&&"), "or", "||"),
                CriteriaResults(visRule, recordData), 1)
        orParts == SplitOn(expression, "||")
    IN  UNION { { SplitOn(orParts[i], "&&")[j] : j \in DOMAIN SplitOn(orParts[i], "&&") } :
                  i \in DOMAIN orParts }

\* A filter is malformed when some operand is not a criterion outcome.
MalformedFilter ==
    /\ visRule.booleanFilter # <<>>
    /\ SubstitutedOperands \ {<<"true">>, <<"false">>} # {}

\* C2: visibility is fail-closed: a malformed booleanFilter yields false,
\* whatever the outcomes and wherever the malformed operand sits.
C2_MalformedFilterIsNotVisible ==
    (visResult # "none" /\ visRule.hasCriteria /\ MalformedFilter) => visResult = "false"

\* C21: without a booleanFilter the result is the outcome of the first
\* criterion alone, whatever criteria 2 and later do, and it is true for a
\* rule with zero criteria and when there is no rule.
C21_FirstCriterionOnly ==
    (visResult # "none" /\ visRule.booleanFilter = <<>>)
    => visResult =
           IF ~visRule.present \/ ~visRule.hasCriteria \/ visRule.criteria = <<>>
           THEN "true"
           ELSE VisibilityCriterionMet(visRule.criteria[1], recordData)


\* ------------------------------------------------------------------------
\* The parser on its own
\* ------------------------------------------------------------------------

\* The most items a region of a generated document has.
MaxItems == 2

\* How often the parser is called on the document.
ParseCalls == 2

PlainField(fieldItem) == FieldInstance(fieldItem, "none", NoRule, NoRuleset)

\* The items of the regions of the simple documents.
SimpleFieldItems ==
    {PlainField("Record.Name"), PlainField("Record.Status__c"), PlainField("Record.Amount__c")}

\* The items of the column facets of the sectioned documents.
FacetItems ==
    {PlainField("Record.Name"),
     FieldInstance("Record.Status__c", "required",
                   VisibilityRule(<<Criterion("{!Record.Name}", "EQUAL", Str("Acme"))>>, <<>>),
                   NoRuleset),
     BlankSpace(FALSE, ""),
     BlankSpace(TRUE, "spacerA")}

\* A document with one section of two columns.
SectionedDoc(section, left, right) ==
    FlexiPage(<<Region("Region", "main", <<section>>),
                Region("Facet", "Facet-cols",
                       <<Column("flexipage_column1", "Facet-left"),
                         Column("flexipage_column2", "Facet-right")>>),
                Region("Facet", "Facet-left", left),
                Region("Facet", "Facet-right", right)>>)

\* The documents the parser is called on.
ParseDocs ==
    {NullDoc, NoRegionsDoc, NotArrayDoc}
    \cup { FlexiPage(<<Region("Region", "main", a)>>) :
               a \in SeqsUpTo(SimpleFieldItems, MaxItems) }
    \cup { FlexiPage(<<Region("Region", "main", a), Region("Region", "sidebar", b)>>) :
               a \in SeqsUpTo(SimpleFieldItems, MaxItems),
               b \in SeqsUpTo(SimpleFieldItems, MaxItems) }
    \cup { SectionedDoc(section, left, right) :
               section \in {FieldSection("Facet-cols", TRUE, "account_details"),
                            FieldSection("Facet-cols", TRUE, ""),
                            FieldSection("Facet-cols", FALSE, "")},
               left \in SeqsUpTo(FacetItems, MaxItems),
               right \in {<<>>, <<PlainField("Record.Amount__c")>>} }

InitParse ==
    /\ DefaultProps
    /\ FreshFields
    /\ FreshEnv
    /\ NoVisCall
    /\ NoFmtCall
    /\ recordData = EmptyRecordData
    /\ config \in ParseDocs
    /\ docBefore = config
    /\ parseResults = <<>>
    /\ NoEditor

\* One call parseFlexiPageJson(config).
Parse ==
    /\ Len(parseResults) < ParseCalls
    /\ parseResults' = Append(parseResults, parseFlexiPageJson(config))
    /\ config' = DocumentAfterParse(config)
    /\ UNCHANGED <<propVars, recordData, fieldMetadata, sections, fields,
                   fieldApiNamesForWire, isLoading, error, editMode, refreshKey,
                   iconFormatCache, envVars, visVars, fmtVars, docBefore, cpeVars>>

NextParse == Parse

SpecParse == InitParse /\ [][NextParse]_vars


\* The field ids of a document's field instances, flattened across its regions
\* (region order, then item order).
FlattenedFieldIds(doc) ==
    LET IsFieldItem(e) == e.item.kind = "field"
        flat == SelectSeq(AllItems(doc.flexiPageRegions, 1), IsFieldItem)
    IN  [i \in DOMAIN flat |-> StripRecordPrefix(flat[i].item.fieldItem)]

\* A simple-shape document whose field instances name different fields.
SimpleShape(doc) ==
    /\ doc.kind = "ok"
    /\ hasSimpleLayout(doc.flexiPageRegions)
    /\ \A i, j \in DOMAIN FlattenedFieldIds(doc) :
           FlattenedFieldIds(doc)[i] = FlattenedFieldIds(doc)[j] => i = j

\* C7: for a simple-shape document the parser gives the single section
\* "defaultSection" (label "Information") with the single column
\* "defaultColumn", and every field's order is its index in the list of field
\* instances flattened across all regions (R1(a,b), R2(c) gives a:0, b:1, c:2).
C7_SimpleOrderIsFlattenedIndex ==
    \A n \in DOMAIN parseResults :
        SimpleShape(docBefore) =>
            /\ ~parseResults[n].threw
            /\ Len(parseResults[n].sections) = 1
            /\ parseResults[n].sections[1].k = "defaultSection"
            /\ parseResults[n].sections[1].v.label = "Information"
            /\ Len(parseResults[n].sections[1].v.columns) = 1
            /\ parseResults[n].sections[1].v.columns[1].k = "defaultColumn"
            /\ LET slots == parseResults[n].sections[1].v.columns[1].v.fields
                   flat == FlattenedFieldIds(docBefore)
               IN  /\ Len(slots) = Len(flat)
                   /\ \A i \in DOMAIN flat :
                          /\ HasKey(slots, flat[i])
                          /\ Get(slots, flat[i]).order = i - 1

C9_MalformedDocumentGivesEmptyMap ==
    \A n \in DOMAIN parseResults :
        docBefore.kind \in {"null", "noRegions", "notArray"} =>
            /\ ~parseResults[n].threw
            /\ parseResults[n].sections = <<>>

\* The parser has returned for a document whose flexiPageRegions is not a list.
C9_ParsedNotArray ==
    /\ docBefore.kind = "notArray"
    /\ parseResults # <<>>

\* The field-section components of a document whose label is absent: the
\* component has no label property, or the property's value is empty.
UnlabelledSections(doc) ==
    LET IsUnlabelled(e) ==
            /\ IsComponent(e.item, "flexipage:fieldSection")
            /\ e.item.hasColumns
            /\ (~e.item.hasLabel \/ e.item.label = "")
    IN  IF doc.kind = "ok" /\ ~hasSimpleLayout(doc.flexiPageRegions)
        THEN SelectSeq(AllItems(doc.flexiPageRegions, 1), IsUnlabelled)
        ELSE <<>>

\* C23: in a complex-shape document a section component without a label (no
\* label property, or an empty value) is parsed without an exception, and the
\* section it gives is labelled "Unnamed Section".
C23_AbsentLabelGivesUnnamedSection ==
    \A n \in DOMAIN parseResults :
        \A i \in DOMAIN UnlabelledSections(docBefore) :
            LET columns == UnlabelledSections(docBefore)[i].item.columns
            IN  /\ ~parseResults[n].threw
                /\ HasKey(parseResults[n].sections, columns)
                       => Get(parseResults[n].sections, columns).label = "Unnamed Section"


\* ------------------------------------------------------------------------
\* The format evaluator on its own
\* ------------------------------------------------------------------------

\* The criteria of the inline text rules.
FormatCriteria ==
    { Criterion(l, op, r) :
        l \in {"{!Record.Status__c}", "{!Record.Amount__c}"},
        op \in {"EQUAL", "NE", "GT", "GE", "LT", "LE", "CONTAINS"},
        r \in {Str("New"), Num(50), Str("100")} }

\* Rule lists: one rule of one criterion, one rule of two criteria on the two
\* fields, and two rules on the two fields.
TextRuleLists ==
    { <<TextRule(TRUE, <<c>>, f)>> :
          c \in FormatCriteria, f \in {"{\"fontColor\":\"red\"}", "", "{fontColor"} }
    \cup { <<TextRule(TRUE, <<Criterion("{!Record.Status__c}", op1, Str("New")),
                               Criterion("{!Record.Amount__c}", op2, Num(50))>>,
                      "{\"fontColor\":\"red\"}")>> :
               op1 \in {"EQUAL", "NE"}, op2 \in {"GT", "NE", "LE"} }
    \cup { <<TextRule(TRUE, <<Criterion("{!Record.Status__c}", op1, Str("New"))>>,
                      "{\"fontColor\":\"red\"}"),
             TextRule(TRUE, <<Criterion("{!Record.Amount__c}", op2, Num(50))>>,
                      "{\"fontColor\":\"green\"}")>> :
               op1 \in {"EQUAL", "NE"}, op2 \in {"GT", "NE", "LE"} }
    \cup { <<TextRule(FALSE, <<>>, "{\"fontColor\":\"red\"}")>> }

\* The rule lists a fetched icon rule set may hold.
IconRuleLists ==
    { <<>>,
      \* Scenario D
      <<IconRule(1, 1, "GT", Str("50"), TRUE, "utility:up", "success"),
        IconRule(1, 2, "LE", Str("50"), TRUE, "utility:down", "error")>>,
      \* fetched in another order than the sorted one, two rules match 30
      <<IconRule(2, 1, "LE", Str("50"), TRUE, "utility:warning", "warning"),
        IconRule(1, 2, "LT", Str("50"), TRUE, "utility:down", "error"),
        IconRule(1, 1, "GT", Str("50"), TRUE, "utility:up", "success")>>,
      <<IconRule(1, 2, "GE", Str("50"), TRUE, "utility:up", "success"),
        IconRule(1, 1, "LT", Str("50"), TRUE, "utility:down", "error")>>,
      <<IconRule(2, 1, "NE", Str("0"), FALSE, "", ""),
        IconRule(1, 1, "GT", Str("10"), TRUE, "utility:up", "success")>> }

\* What the rule-set fetch may resolve with: null, an object without rules,
\* an object with rules.
IconResponses ==
    { IconRuleSet(TRUE, FALSE, <<>>), IconRuleSet(FALSE, FALSE, <<>>) }
    \cup { IconRuleSet(FALSE, TRUE, rules) : rules \in IconRuleLists \ {<<>>} }

\* The rule sets evaluateConditionalFormatRule is called with.
FormatRulesets ==
    { NoRuleset, RulesetName("IconSetA"),
      RulesetObject("icon", "IconSetB", FALSE, <<>>),
      RulesetObject("icon", "", FALSE, <<>>),
      RulesetObject("text", "", FALSE, <<>>) }
    \cup { RulesetObject("text", "", TRUE, rules) : rules \in TextRuleLists }
    \cup { RulesetObject("icon", "IconSetA", TRUE,
                         <<TextRule(TRUE, <<Criterion("{!Record.Status__c}", op, Str("New"))>>,
                                    "{\"fontColor\":\"red\"}")>>) :
               op \in {"EQUAL", "NE"} }

FormatRecords ==
    { [EmptyRecordData EXCEPT !["status__c"] = st, !["amount__c"] = am] :
        st \in {Str("New"), Str("Closed"), Undef}, am \in {Num(100), Str("30"), Undef} }

InitFmt ==
    /\ DefaultProps
    /\ FreshFields
    /\ config = NullDoc
    /\ FreshEnv
    /\ NoVisCall
    /\ NoParseCall
    /\ recordData \in FormatRecords
    /\ fmtRuleset \in FormatRulesets
    /\ fmtFieldId \in {"Amount__c", "Status__c"}
    /\ fmtPc = "idle"
    /\ fmtResult = StylePending
    /\ NoEditor

\* evaluateConditionalFormatRule(fmtRuleset, fmtFieldId) up to its return or up
\* to the call of getUiFormatSpecificationSet.
FmtCall ==
    /\ fmtPc = "idle"
    /\ IF NeedsFetch(fmtRuleset, iconFormatCache)
       THEN /\ fmtPc' = "fetching"
            /\ UNCHANGED fmtResult
       ELSE /\ fmtPc' = "done"
            /\ fmtResult' = FormatFromCache(fmtRuleset, fmtFieldId, recordData, iconFormatCache)
    /\ UNCHANGED <<propVars, fieldVars, envVars, visVars, fmtRuleset, fmtFieldId, parseVars, cpeVars>>

\* getUiFormatSpecificationSet resolves: the result goes into the cache and
\* the evaluation goes on from there.
FmtFetchResolve ==
    /\ fmtPc = "fetching"
    /\ \E iconRules \in IconResponses :
           LET cache == [iconFormatCache EXCEPT ![NormalizedRuleset(fmtRuleset).value] = iconRules]
           IN  /\ iconFormatCache' = cache
               /\ fmtResult' = FormatFromCache(fmtRuleset, fmtFieldId, recordData, cache)
    /\ fmtPc' = "done"
    /\ UNCHANGED <<propVars, config, recordData, fieldMetadata, sections, fields,
                   fieldApiNamesForWire, isLoading, error, editMode, refreshKey,
                   envVars, visVars, fmtRuleset, fmtFieldId, parseVars, cpeVars>>

\* getUiFormatSpecificationSet rejects: the catch returns null.
FmtFetchReject ==
    /\ fmtPc = "fetching"
    /\ fmtPc' = "done"
    /\ fmtResult' = StyleNull
    /\ UNCHANGED <<propVars, fieldVars, envVars, visVars, fmtRuleset, fmtFieldId, parseVars, cpeVars>>

NextFmt == FmtCall \/ FmtFetchResolve \/ FmtFetchReject

SpecFmt == InitFmt /\ [][NextFmt]_vars

\* Whether a criterion of a text rule reads a field that recordData lacks.
ReadsMissingField(criterion, rd) ==
    DataGet(rd, toLowerCase(StripFieldRef(criterion.leftValue))) = Undef

\* A rule set all of whose rules depend on a field that recordData lacks:
\* inline text rules that each have such a criterion, or icon rules for a
\* field without a value.
DependsOnMissingField(ruleset, fieldId, rd) ==
    IF IsIconRuleset(ruleset)
    THEN DataGet(rd, toLowerCase(fieldId)) = Undef
    ELSE /\ ruleset.kind = "object"
         /\ ruleset.hasRules
         /\ \A i \in DOMAIN ruleset.rules :
                /\ ruleset.rules[i].hasCriteria
                /\ \E j \in DOMAIN ruleset.rules[i].criteria :
                       ReadsMissingField(ruleset.rules[i].criteria[j], rd)

\* C6: for a rule set whose criteria reference a field absent from recordData,
\* evaluateConditionalFormatRule ends without an exception and returns null,
\* whatever the operator (NE included).
C6_MissingFieldGivesNull ==
    (fmtPc = "done" /\ DependsOnMissingField(fmtRuleset, fmtFieldId, recordData))
        => fmtResult = StyleNull

\* The call evaluated inline text rules: the rule set is not an icon rule set
\* and carries a rules list.
InlineTextRulesEvaluated ==
    /\ fmtPc = "done"
    /\ fmtRuleset.kind = "object"
    /\ fmtRuleset.hasRules
    /\ ~IsIconRuleset(fmtRuleset)

\* Rule i of the rule set yields a style: all its criteria match recordData
\* and its formatValue is well-formed JSON.
RuleYieldsStyle(i) ==
    LET rule == fmtRuleset.rules[i]
    IN  /\ rule.hasCriteria
        /\ \A j \in DOMAIN rule.criteria :
               FormatCriterionMet(rule.criteria[j], recordData) = "true"
        /\ rule.formatValue # ""
        /\ JsonParseStyle(rule.formatValue) # StyleThrow

\* C22: inline text rules are taken in document order and the style of the
\* first rule that matches and has a well-formed formatValue is returned; a
\* malformed formatValue raises nothing and the next rule is tried; the result
\* is null when no rule yields a style.
C22_FirstMatchingTextRule ==
    InlineTextRulesEvaluated =>
        LET yielding == { i \in DOMAIN fmtRuleset.rules : RuleYieldsStyle(i) }
        IN  IF yielding = {}
            THEN fmtResult = StyleNull
            ELSE \E i \in yielding :
                     /\ \A k \in yielding : i <= k
                     /\ fmtResult = JsonParseStyle(fmtRuleset.rules[i].formatValue)

\* A value looks numeric: !isNaN(v) && v !== "".
LooksNumeric(v) == ~ToNumber(v).nan /\ v # Str("")

\* The comparison of two numbers under a comparison operator.
NumericComparison(operator, x, y) ==
    CASE operator = "EQUAL" -> x = y
      [] operator = "NE" -> x # y
      [] operator = "GT" -> x > y
      [] operator = "GE" -> x >= y
      [] operator = "LE" -> x <= y
      [] operator = "LT" -> x < y
      [] OTHER -> FALSE

\* The call evaluated one inline text rule of one criterion whose operator is
\* a comparison and whose two sides both look numeric.
NumericTextCriterionEvaluated ==
    /\ InlineTextRulesEvaluated
    /\ Len(fmtRuleset.rules) = 1
    /\ fmtRuleset.rules[1].hasCriteria
    /\ Len(fmtRuleset.rules[1].criteria) = 1
    /\ JsonParseStyle(fmtRuleset.rules[1].formatValue) # StyleThrow
    /\ LET criterion == fmtRuleset.rules[1].criteria[1]
       IN  /\ criterion.operator \in {"EQUAL", "NE", "GT", "GE", "LE", "LT"}
           /\ LooksNumeric(criterion.rightValue)
           /\ LooksNumeric(DataGet(recordData,
                                   toLowerCase(StripFieldRef(criterion.leftValue))))

\* C25: a text-rule criterion whose record value and rightValue both look
\* numeric is decided by the numeric comparison, for every comparison
\* operator, EQUAL and NE included (the rule's style is returned exactly when
\* the numbers compare so); a visibility criterion on the same values is
\* decided by the stored values as they are.
C25_NumericCoercionInTextRules ==
    NumericTextCriterionEvaluated =>
        LET criterion == fmtRuleset.rules[1].criteria[1]
            leftValue == DataGet(recordData, toLowerCase(StripFieldRef(criterion.leftValue)))
            matches == NumericComparison(criterion.operator, ToNumber(leftValue).n,
                                         ToNumber(criterion.rightValue).n)
        IN  /\ fmtResult = IF matches
                           THEN JsonParseStyle(fmtRuleset.rules[1].formatValue)
                           ELSE StyleNull
            /\ criterion.operator = "EQUAL" =>
                   VisibilityCriterionMet(criterion, recordData)
                       = BoolStr(leftValue = criterion.rightValue)

\* The cache entry an icon evaluation reads, and the field value it compares.
CachedIconRules == iconFormatCache[NormalizedRuleset(fmtRuleset).value]

IconFieldValue ==
    LET fieldValue == DataGet(recordData, toLowerCase(fmtFieldId))
    IN  IF ~ToNumber(fieldValue).nan THEN Num(ToNumber(fieldValue).n) ELSE fieldValue

\* An icon evaluation has returned for a field that has a value, from a
\* fetched rule set that has rules.
IconEvaluationDone ==
    /\ fmtPc = "done"
    /\ IsIconRuleset(fmtRuleset)
    /\ CachedIconRules.cached
    /\ ~CachedIconRules.isNull
    /\ CachedIconRules.hasRules
    /\ DataGet(recordData, toLowerCase(fmtFieldId)) # Undef

\* Whether rule i is considered before rule j: the smaller (visibilityGroup,
\* visibilityRank) first, the fetched order among equals.
ConsideredBefore(rules, i, j) ==
    \/ rules[i].visibilityGroup < rules[j].visibilityGroup
    \/ /\ rules[i].visibilityGroup = rules[j].visibilityGroup
       /\ rules[i].visibilityRank < rules[j].visibilityRank
    \/ /\ rules[i].visibilityGroup = rules[j].visibilityGroup
       /\ rules[i].visibilityRank = rules[j].visibilityRank
       /\ i < j

\* The rules of the fetched set whose comparison matches the field value.
MatchingIconRules ==
    { i \in DOMAIN CachedIconRules.rules :
        IconRuleMatches(CachedIconRules.rules[i], IconFieldValue) }

\* C15: evaluateIconRules returns the icon of the matching rule that comes
\* first in ascending (visibilityGroup, visibilityRank) order, whatever the
\* order of the fetched rule set, and null when no rule matches.
C15_FirstMatchInRankOrder ==
    IconEvaluationDone =>
        IF MatchingIconRules = {}
        THEN fmtResult = StyleNull
        ELSE \E i \in MatchingIconRules :
                 /\ \A j \in MatchingIconRules \ {i} :
                        ConsideredBefore(CachedIconRules.rules, i, j)
                 /\ fmtResult = Style("icon", "", CachedIconRules.rules[i].iconName,
                                      CachedIconRules.rules[i].iconColor)

\* The matching rules that carry an icon.
MatchingRulesWithIcon == { i \in MatchingIconRules : CachedIconRules.rules[i].hasIcon }

\* C15, amended: evaluateIconRules returns the icon of the rule that comes
\* first in ascending (visibilityGroup, visibilityRank) order among the rules
\* that match and carry an icon, whatever the order of the fetched rule set,
\* and null when there is no such rule.
C15_FirstMatchWithIconInRankOrder ==
    IconEvaluationDone =>
        IF MatchingRulesWithIcon = {}
        THEN fmtResult = StyleNull
        ELSE \E i \in MatchingRulesWithIcon :
                 /\ \A j \in MatchingRulesWithIcon \ {i} :
                        ConsideredBefore(CachedIconRules.rules, i, j)
                 /\ fmtResult = Style("icon", "", CachedIconRules.rules[i].iconName,
                                      CachedIconRules.rules[i].iconColor)

\* An icon evaluation has returned the icon of a rule that is not the first
\* matching rule of the fetched order.
C15_LaterRuleOfFetchedOrderChosen ==
    /\ IconEvaluationDone
    /\ \E i, j \in MatchingIconRules :
           /\ j < i
           /\ ConsideredBefore(CachedIconRules.rules, i, j)
           /\ CachedIconRules.rules[i].iconName # CachedIconRules.rules[j].iconName
           /\ fmtResult = Style("icon", "", CachedIconRules.rules[i].iconName,
                                CachedIconRules.rules[i].iconColor)


\* ------------------------------------------------------------------------
\* The component
\* ------------------------------------------------------------------------

\* How many results the wire adapter delivers.
MaxDeliveries == 2

\* How many saves succeed.
MaxSaves == 1

IconField(fieldItem, ruleset) == FieldInstance(fieldItem, "none", NoRule, ruleset)

\* Status__c is shown for the account Acme only.
StatusRule == VisibilityRule(<<Criterion("{!Record.Name}", "EQUAL", Str("Acme"))>>, <<>>)

\* A layout of two plain regions.
FormSimple ==
    FlexiPage(<<Region("Region", "main",
                       <<PlainField("Record.Name"), PlainField("Record.Status__c")>>),
                Region("Region", "sidebar",
                       <<PlainField("Record.Amount__c"), PlainField("Record.Stage__c"),
                         PlainField("Record.OwnerId")>>)>>)

\* A layout of one section: name, status (with a rule), a spacer and the owner
\* on the left, two fields that share an icon rule set on the right.
FormSectioned ==
    SectionedDoc(FieldSection("Facet-cols", TRUE, "account_details"),
                 <<PlainField("Record.Name"),
                   FieldInstance("Record.Status__c", "required", StatusRule, NoRuleset),
                   BlankSpace(FALSE, ""),
                   PlainField("Record.OWNERID")>>,
                 <<IconField("Record.Amount__c", RulesetName("IconSetA")),
                   IconField("Record.Score__c",
                             RulesetObject("icon", "IconSetA", FALSE, <<>>))>>)

\* A layout of one section whose left column names a field twice and whose
\* fields carry inline text rules.
FormRepeated ==
    SectionedDoc(FieldSection("Facet-cols", TRUE, ""),
                 <<FieldInstance("Record.Name", "readonly", NoRule, NoRuleset),
                   IconField("Record.Status__c",
                             RulesetObject("text", "", TRUE,
                                 <<TextRule(TRUE,
                                       <<Criterion("{!Record.Amount__c}", "CONTAINS", Str("30"))>>,
                                       "{\"fontColor\":\"red\"}")>>)),
                   PlainField("Record.Name")>>,
                 <<>>)

\* A layout whose section has no label property.
FormUnlabelled ==
    SectionedDoc(FieldSection("Facet-cols", FALSE, ""), <<PlainField("Record.Name")>>, <<>>)

\* A layout whose section has two columns without items.
FormEmptySection ==
    SectionedDoc(FieldSection("Facet-cols", TRUE, "account_details"), <<>>, <<>>)

\* What getFlexiPageMetadata may resolve with: text that is no JSON, or a document.
LayoutResults ==
    { [wellFormed |-> FALSE, doc |-> NullDoc] }
    \cup { [wellFormed |-> TRUE, doc |-> d] :
             d \in {FormSimple, FormSectioned, FormRepeated, FormUnlabelled,
                    FormEmptySection, NoRegionsDoc} }

\* What the wire adapter may deliver: the values (in key order) and the metadata.
WirePayloads ==
    { [values |-> <<[k |-> "Name", v |-> Str("Acme")],
                    [k |-> "Status__c", v |-> Str("New")],
                    [k |-> "Amount__c", v |-> Num(100)],
                    [k |-> "Score__c", v |-> Num(5)],
                    [k |-> "OwnerId", v |-> Str("005xx000001SvogAAC")]>>,
       metadata |-> [x \in {"ownerid"} |-> Metadata("REFERENCE", "Pat")]],
      [values |-> <<[k |-> "Name", v |-> Str("Globex")],
                    [k |-> "Amount__c", v |-> Str("30")]>>,
       metadata |-> EmptyObject] }

\* What getUiFormatSpecificationSet may resolve with.
FetchedRuleSets ==
    { IconRuleSet(TRUE, FALSE, <<>>),
      IconRuleSet(FALSE, TRUE,
                  <<IconRule(1, 2, "GE", Str("50"), TRUE, "utility:up", "success"),
                    IconRule(1, 1, "LT", Str("50"), TRUE, "utility:down", "error")>>) }

\* The defaultValues string "Amount__c:100;Stage__c:Prospecting" of Scenario B.
ScenarioBDefaults ==
    <<[fieldName |-> "Amount__c", value |-> "100"],
      [fieldName |-> "Stage__c", value |-> "Prospecting"]>>

\* The component as constructed, for a new and for an existing record, in
\* edit and in read-only mode: with and without excluded fields and a default
\* for Status__c, or with the defaults of Scenario B, or with an altField.
Init ==
    /\ recordId \in {"", "001xx000003DGb2AAG"}
    /\ isReadOnly \in BOOLEAN
    /\ \/ /\ excludedFields \in {<<>>, <<"Name", " Status__c">>}
          /\ defaultValues \in {<<>>, <<[fieldName |-> "Status__c", value |-> "New"]>>}
          /\ altField = ""
       \/ /\ excludedFields = <<>>
          /\ defaultValues = ScenarioBDefaults
          /\ altField = ""
       \/ /\ excludedFields = <<>>
          /\ defaultValues = <<>>
          /\ altField = "OwnerId"
    /\ FreshFields
    /\ config = NullDoc
    /\ recordData = EmptyObject
    /\ FreshEnv
    /\ NoVisCall
    /\ NoFmtCall
    /\ NoParseCall
    /\ NoEditor


\* The field id and the rule set at a place of a draft.
PlaceField(draft, place) == draft[place[1]].columns[place[2]].enhancedFields[place[3]]

PlaceIdentifier(draft, place) ==
    NormalizedRuleset(PlaceField(draft, place).conditionalFormatRuleset).value

\* A call of processSections that has run until every field's evaluation has
\* returned or waits for getUiFormatSpecificationSet: the tree it was called
\* with, recordData as it was then, the sections built so far, the places that
\* wait, whether an evaluation has thrown, and the fetches issued per identifier.
PassOf(kind, parsedSections, rd, meta, cache) ==
    LET draft == DraftSections(parsedSections, rd, meta, cache)
        pending == StyledPlaces(draft, StylePending)
    IN  [kind |-> kind, parsed |-> parsedSections, rd |-> rd, draft |-> draft,
         pending |-> pending,
         failed |-> StyledPlaces(draft, StyleThrow) # {},
         calls |-> [id \in IconSetIds |->
                       Cardinality({ place \in pending : PlaceIdentifier(draft, place) = id })]]

\* fetchFieldValues, given the parse of config: the collected fields go to the
\* wire adapter, which then owes a result.
FetchFieldValues(parsedSections) ==
    /\ fields' = collectFields(parsedSections, allExcludedFields(excludedFields, isReadOnly))
    /\ isLoading' = TRUE
    /\ fieldApiNamesForWire' = fields'
    /\ wirePending' = TRUE

\* What follows a step of a pass.  `wasFailed` tells whether the pass had
\* thrown before the step, `without` and `with` are the suspended passes
\* without and with this one, `rd` is recordData after the step and `owed`
\* tells whether the wire adapter owes a result after it.
\*  - A pass that throws rejects processSections at once: the new-record path
\*    catches it, processFieldData lets it go.
\*  - A pass whose last evaluation has returned is published: the new-record
\*    path sets sections, fields and isLoading; processFieldData sets fields,
\*    refreshKey, sections and isLoading and ends with checkAltFieldAndRefetch.
\*  - The responses of a pass that has thrown still arrive (and go to the cache).
Continue(pass, wasFailed, without, with, rd, owed) ==
    /\ passes' = IF pass.pending = {} THEN without ELSE with
    /\ IF pass.failed
       THEN /\ IF ~wasFailed /\ pass.kind = "new"
               THEN error' = TRUE /\ isLoading' = FALSE
               ELSE UNCHANGED <<error, isLoading>>
            /\ wirePending' = owed
            /\ UNCHANGED <<sections, fields, refreshKey, recordId, fieldApiNamesForWire,
                           published>>
       ELSE IF pass.pending # {}
       THEN /\ wirePending' = owed
            /\ UNCHANGED <<sections, fields, refreshKey, recordId, fieldApiNamesForWire,
                           published, error, isLoading>>
       ELSE /\ sections' = FinishSections(pass.draft)
            /\ published' = [kind |-> pass.kind, parsed |-> pass.parsed, rd |-> pass.rd]
            /\ UNCHANGED error
            /\ IF pass.kind = "new"
               THEN /\ fields' = collectFields(pass.parsed,
                                               allExcludedFields(excludedFields, isReadOnly))
                    /\ isLoading' = FALSE
                    /\ wirePending' = owed
                    /\ UNCHANGED <<refreshKey, recordId, fieldApiNamesForWire>>
               ELSE /\ refreshKey' = refreshKey + 1
                    /\ LET altFieldValue == IF altField = "" THEN Undef
                                            ELSE DataGet(rd, toLowerCase(altField))
                       IN  IF Truthy(altFieldValue)
                           THEN /\ recordId' = altFieldValue.s
                                /\ FetchFieldValues(parseFlexiPageJson(config).sections)
                           ELSE /\ fields' = collectFields(pass.parsed,
                                        allExcludedFields(excludedFields, isReadOnly))
                                /\ isLoading' = FALSE
                                /\ wirePending' = owed
                                /\ UNCHANGED <<recordId, fieldApiNamesForWire>>

\* connectedCallback
ConnectedCallback ==
    /\ ~connected
    /\ connected' = TRUE
    /\ isLoading' = TRUE
    /\ IF isNewRecord(recordId)
       THEN /\ editMode' = TRUE
            /\ recordData' = ObjectOf(parseDefaultValues(defaultValues))
            /\ layoutFetch' = "new"
       ELSE /\ layoutFetch' = "existing"
            /\ UNCHANGED <<editMode, recordData>>
    /\ wirePending' = (recordId # "")
    /\ UNCHANGED <<propVars, config, fieldMetadata, sections, fields, fieldApiNamesForWire,
                   error, refreshKey, iconFormatCache, deliveries, saves, passes, published,
                   visVars, fmtVars, parseVars, cpeVars>>

\* A catch that goes on as if the layout were still being loaded.
LayoutErrorCaughtStillLoading == [error |-> TRUE, isLoading |-> TRUE]

\* What the catch handlers of the layout fetch set: this.error = e and
\* this.isLoading = false.
LayoutErrorCaught == [error |-> TRUE, isLoading |-> FALSE]

\* get isDataAvailable()
isDataAvailable ==
    /\ ~error
    /\ sections # <<>>
    /\ \E s \in DOMAIN sections : \E c \in DOMAIN sections[s].columns :
           sections[s].columns[c].enhancedFields # <<>>

\* getFlexiPageMetadata resolves: the then-callback of connectedCallback (new
\* record) or of loadFlexiPageConfig (existing record).
LayoutResolve ==
    /\ layoutFetch \in {"new", "existing"}
    /\ \E result \in LayoutResults :
           LET parsed == parseFlexiPageJson(result.doc)
               excluded == allExcludedFields(excludedFields, isReadOnly)
           IN  IF ~result.wellFormed \/ parsed.threw
               THEN /\ layoutFetch' = "failed"
                    /\ config' = IF result.wellFormed THEN result.doc ELSE config
                    /\ error' = LayoutErrorCaught.error
                    /\ isLoading' = LayoutErrorCaught.isLoading
                    /\ UNCHANGED <<sections, fields, refreshKey, recordId, fieldApiNamesForWire,
                                   published, passes, wirePending>>
               ELSE IF layoutFetch = "existing"
               THEN /\ layoutFetch' = "none"
                    /\ config' = result.doc
                    /\ FetchFieldValues(parsed.sections)
                    /\ UNCHANGED <<sections, refreshKey, recordId, published, passes, error>>
               ELSE /\ layoutFetch' = "none"
                    /\ config' = result.doc
                    /\ LET pass == PassOf("new", removeExcludedFields(parsed.sections, excluded),
                                          recordData, fieldMetadata, iconFormatCache)
                       IN  Continue(pass, FALSE, passes, Append(passes, pass), recordData,
                                    wirePending)
    /\ UNCHANGED <<isReadOnly, excludedFields, defaultValues, altField, recordData,
                   fieldMetadata, editMode, iconFormatCache, connected, deliveries, saves,
                   visVars, fmtVars, parseVars, cpeVars>>

\* getFlexiPageMetadata rejects.
LayoutReject ==
    /\ layoutFetch \in {"new", "existing"}
    /\ layoutFetch' = "failed"
    /\ error' = LayoutErrorCaught.error
    /\ isLoading' = LayoutErrorCaught.isLoading
    /\ UNCHANGED <<propVars, config, recordData, fieldMetadata, sections, fields,
                   fieldApiNamesForWire, editMode, refreshKey, iconFormatCache, connected,
                   wirePending, deliveries, saves, passes, published, visVars, fmtVars, parseVars, cpeVars>>


\* The sequence without its element p.
RemoveAt(seq, p) == SubSeq(seq, 1, p - 1) \o SubSeq(seq, p + 1, Len(seq))

\* wiredFieldValues with data, and the processFieldData it calls when the
\* layout is there: parse, applyDefaultValues, removeExcludedFields,
\* calculateVisibility, processSections and what follows it.
WireDeliver ==
    /\ connected
    /\ wirePending
    /\ deliveries < MaxDeliveries
    /\ deliveries' = deliveries + 1
    /\ \E data \in WirePayloads :
           LET mapped == mapFieldValues(data.values)
               parsed == parseFlexiPageJson(config)
               lookupValues == parseDefaultValues(defaultValues)
               withDefaults == applyDefaultValuesTree(parsed.sections, lookupValues, recordId)
               rd == applyDefaultValuesData(mapped, AllSlots(parsed.sections), lookupValues,
                                            recordId, 1)
               kept == removeExcludedFields(withDefaults,
                                            allExcludedFields(excludedFields, isReadOnly))
           IN  /\ fieldMetadata' = data.metadata
               /\ IF config.kind = "null" \/ parsed.threw
                  THEN /\ recordData' = mapped
                       /\ wirePending' = FALSE
                       /\ UNCHANGED <<sections, fields, refreshKey, recordId,
                                      fieldApiNamesForWire, published, passes, error, isLoading>>
                  ELSE IF calculateVisibilityThrows(kept, rd)
                  THEN /\ recordData' = rd
                       /\ wirePending' = FALSE
                       /\ UNCHANGED <<sections, fields, refreshKey, recordId,
                                      fieldApiNamesForWire, published, passes, error, isLoading>>
                  ELSE /\ recordData' = rd
                       /\ LET pass == PassOf("existing", calculateVisibility(kept, rd), rd,
                                             data.metadata, iconFormatCache)
                          IN  Continue(pass, FALSE, passes, Append(passes, pass), rd, FALSE)
    /\ UNCHANGED <<isReadOnly, excludedFields, defaultValues, altField, config, editMode,
                   iconFormatCache, connected, layoutFetch, saves, visVars, fmtVars,
                   parseVars, cpeVars>>

\* wiredFieldValues with an error.
WireError ==
    /\ connected
    /\ wirePending
    /\ deliveries < MaxDeliveries
    /\ deliveries' = deliveries + 1
    /\ wirePending' = FALSE
    /\ error' = TRUE
    /\ isLoading' = FALSE
    /\ UNCHANGED <<propVars, config, recordData, fieldMetadata, sections, fields,
                   fieldApiNamesForWire, editMode, refreshKey, iconFormatCache, connected,
                   layoutFetch, saves, passes, published, visVars, fmtVars, parseVars, cpeVars>>

\* The draft with the style of a place set.
WithStyle(draft, place, style) ==
    [draft EXCEPT ![place[1]].columns[place[2]].enhancedFields[place[3]].formatStyle = style]

\* A getUiFormatSpecificationSet call of a suspended pass resolves: the result
\* goes into the cache and the field's evaluation goes on with the cache and
\* recordData as they are now.
FetchResolve ==
    \E p \in DOMAIN passes : \E place \in passes[p].pending : \E iconRules \in FetchedRuleSets :
        LET pass == passes[p]
            field == PlaceField(pass.draft, place)
            cache == [iconFormatCache EXCEPT ![PlaceIdentifier(pass.draft, place)] = iconRules]
            style == FormatFromCache(field.conditionalFormatRuleset, field.fieldId,
                                     recordData, cache)
            after == [pass EXCEPT !.draft = WithStyle(pass.draft, place, style),
                                  !.pending = pass.pending \ {place},
                                  !.failed = pass.failed \/ style = StyleThrow]
        IN  /\ iconFormatCache' = cache
            /\ Continue(after, pass.failed, RemoveAt(passes, p), [passes EXCEPT ![p] = after],
                        recordData, wirePending)
            /\ UNCHANGED <<isReadOnly, excludedFields, defaultValues, altField, config,
                           recordData, fieldMetadata, editMode, connected, layoutFetch,
                           deliveries, saves, visVars, fmtVars, parseVars, cpeVars>>

\* The catch of evaluateConditionalFormatRule lets the error go on to its caller.
StyleAfterRejectionRethrown == StyleThrow

\* What evaluateConditionalFormatRule returns from its catch.
StyleAfterRejection == StyleNull

\* The getUiFormatSpecificationSet call for a place of a suspended pass
\* rejects: the field's evaluation returns from the catch.
FetchRejectAt(p, place) ==
    LET pass == passes[p]
        after == [pass EXCEPT !.draft = WithStyle(pass.draft, place, StyleAfterRejection),
                              !.pending = pass.pending \ {place},
                              !.failed = pass.failed \/ StyleAfterRejection = StyleThrow]
    IN  /\ Continue(after, pass.failed, RemoveAt(passes, p), [passes EXCEPT ![p] = after],
                    recordData, wirePending)
        /\ UNCHANGED <<isReadOnly, excludedFields, defaultValues, altField, config,
                       recordData, fieldMetadata, editMode, iconFormatCache, connected,
                       layoutFetch, deliveries, saves, visVars, fmtVars, parseVars, cpeVars>>

FetchReject ==
    \E p \in DOMAIN passes : \E place \in passes[p].pending : FetchRejectAt(p, place)

\* What the user may type into the inputs of the rendered form.
FieldChanges ==
    { [fieldName |-> "Status__c", value |-> Str("Closed")],
      [fieldName |-> "Name", value |-> Str("Initech")] }

\* handleFieldChange for an input of the rendered form.
HandleFieldChange ==
    /\ sections # <<>>
    /\ \E i \in DOMAIN fields : \E change \in FieldChanges :
           /\ fields[i] = change.fieldName
           /\ recordData' = DataPut(recordData, toLowerCase(change.fieldName), change.value)
    /\ UNCHANGED <<propVars, config, fieldMetadata, sections, fields, fieldApiNamesForWire,
                   isLoading, error, editMode, refreshKey, iconFormatCache, envVars,
                   visVars, fmtVars, parseVars, cpeVars>>

\* handleSave whose updateRecord/createRecord resolves, and the forceRefresh
\* that follows: the wire adapter owes a fresh result.
HandleSave ==
    /\ sections # <<>>
    /\ saves < MaxSaves
    /\ saves' = saves + 1
    /\ recordId' = IF recordId = "" THEN "001xx000003DGb3AAG" ELSE recordId
    /\ editMode' = FALSE
    /\ isLoading' = TRUE
    /\ wirePending' = TRUE
    /\ UNCHANGED <<isReadOnly, excludedFields, defaultValues, altField, config, recordData,
                   fieldMetadata, sections, fields, fieldApiNamesForWire, error, refreshKey,
                   iconFormatCache, connected, layoutFetch, deliveries, passes, published,
                   visVars, fmtVars, parseVars, cpeVars>>

Next ==
    \/ ConnectedCallback
    \/ LayoutResolve
    \/ LayoutReject
    \/ WireDeliver
    \/ WireError
    \/ FetchResolve
    \/ FetchReject
    \/ HandleFieldChange
    \/ HandleSave

Spec == Init /\ [][Next]_vars

\* The component under the scheduling the platform gives: connectedCallback
\* runs, and every promise and every wire result that is owed is settled.
\* What the user does (field changes, saves) is under no obligation.
SpecFair ==
    /\ Spec
    /\ WF_vars(ConnectedCallback)
    /\ WF_vars(LayoutReject \/ LayoutResolve)
    /\ WF_vars(WireError \/ WireDeliver)
    /\ WF_vars(FetchReject \/ FetchResolve)


\* C3: when several fields of one assembly pass name the same rule set and the
\* cache has no entry for it, the pass issues one fetch for that identifier.
C3_OneFetchPerIdentifier ==
    \A p \in DOMAIN passes : \A id \in IconSetIds : passes[p].calls[id] <= 1

\* The seven fixed system fields, lower-cased.
SystemFieldNames ==
    {"createdbyid", "lastmodifiedbyid", "id", "systemmodstamp", "createddate",
     "lastmodifieddate", "ownerid"}

\* The elements of a sequence.
Range(seq) == { seq[i] : i \in DOMAIN seq }

\* The field ids the assembled sections hold, wherever they hold them.
EmittedIds ==
    UNION { UNION { Range(sections[s].columns[c].fieldIds)
                    \cup { sections[s].columns[c].fields[i].k :
                             i \in DOMAIN sections[s].columns[c].fields }
                    \cup { sections[s].columns[c].enhancedFields[i].fieldId :
                             i \in DOMAIN sections[s].columns[c].enhancedFields } :
                    c \in DOMAIN sections[s].columns } : s \in DOMAIN sections }

\* C4: in edit mode (isReadOnly false) no field whose id is, in any casing, one
\* of the seven system fields is in the assembled sections or in the collected
\* field list, whatever the layout and the excludedFields configuration.
C4_NoSystemFieldInEditMode ==
    ~isReadOnly =>
        \A id \in EmittedIds \cup Range(fields) : toLowerCase(id) \notin SystemFieldNames

\* Sections have been assembled in edit mode from a layout that names a system
\* field in another casing than the list's.
C4_SystemFieldRemoved ==
    /\ ~isReadOnly
    /\ sections # <<>>
    /\ fields # <<>>
    /\ \E i \in DOMAIN AllSlots(parseFlexiPageJson(config).sections) :
           AllSlots(parseFlexiPageJson(config).sections)[i].fieldId = "OWNERID"

\* Whether, among the parser's slots, the slot fieldId of section sectionId has
\* this order.
ParserGaveOrder(parserSlots, sectionId, fieldId, order) ==
    \E i \in DOMAIN parserSlots :
        /\ parserSlots[i].section = sectionId
        /\ parserSlots[i].fieldId = fieldId
        /\ parserSlots[i].slot.order = order

\* C5: in every column of the assembled sections the order values of the
\* entries never decrease from one entry to the next, and every entry carries
\* the order the parser gave it.
C5_OrderPreserved ==
    \A s \in DOMAIN sections : \A c \in DOMAIN sections[s].columns :
        LET column == sections[s].columns[c]
            parserSlots == AllSlots(parseFlexiPageJson(config).sections)
        IN  /\ \A i \in 1..(Len(column.fields) - 1) :
                   column.fields[i].v.order <= column.fields[i + 1].v.order
            /\ Len(column.fieldIds) = Len(column.fields)
            /\ Len(column.enhancedFields) = Len(column.fields)
            /\ \A i \in DOMAIN column.fields :
                   /\ column.fieldIds[i] = column.fields[i].k
                   /\ column.enhancedFields[i].fieldId = column.fields[i].k
                   /\ ParserGaveOrder(parserSlots, sections[s].sectionId,
                                      column.fields[i].k, column.fields[i].v.order)

\* A column has been assembled whose entries the parser lists in another
\* sequence than their order values give.
C5_ColumnReordered ==
    \E s \in DOMAIN sections : \E c \in DOMAIN sections[s].columns :
        \E i, j \in DOMAIN sections[s].columns[c].fieldIds :
            /\ i < j
            /\ \E ps \in DOMAIN parseFlexiPageJson(config).sections :
                   \E pc \in DOMAIN parseFlexiPageJson(config).sections[ps].v.columns :
                       LET slots == parseFlexiPageJson(config).sections[ps].v.columns[pc].v.fields
                       IN  /\ HasKey(slots, sections[s].columns[c].fieldIds[i])
                           /\ HasKey(slots, sections[s].columns[c].fieldIds[j])
                           /\ KeyIndex(slots, sections[s].columns[c].fieldIds[i])
                                  > KeyIndex(slots, sections[s].columns[c].fieldIds[j])

\* Whether the assembled section sectionId lists fieldId.
Emitted(sectionId, fieldId) ==
    \E s \in DOMAIN sections :
        /\ sections[s].sectionId = sectionId
        /\ \E c \in DOMAIN sections[s].columns : fieldId \in Range(sections[s].columns[c].fieldIds)

StaleAfterFieldChange ==
    /\ published.kind # "none"
    /\ \E change \in FieldChanges :
           /\ DataGet(recordData, toLowerCase(change.fieldName)) = change.value
           /\ DataGet(published.rd, toLowerCase(change.fieldName)) # change.value
    /\ layoutFetch = "none"
    /\ ~wirePending
    /\ passes = <<>>

\* C11: after handleFieldChange has written a value into recordData, the
\* visibility flags and the published sections are eventually recomputed from
\* the new recordData (here: even when nothing else is in flight).
C11_FieldChangeRecomputes == StaleAfterFieldChange ~> ~StaleAfterFieldChange

\* The enhanced fields of the published sections.
EnhancedFields ==
    UNION { UNION { Range(sections[s].columns[c].enhancedFields) :
                    c \in DOMAIN sections[s].columns } : s \in DOMAIN sections }

\* Whether the layout in config has a field slot with this id.
LayoutHasField(fieldId) ==
    LET slots == AllSlots(parseFlexiPageJson(config).sections)
    IN  \E i \in DOMAIN slots : slots[i].fieldId = fieldId

\* C12: for a new record with defaultValues "Amount__c:100;Stage__c:Prospecting"
\* and a layout that holds both fields, the assembled Amount__c field has the
\* number 100 as its value, the assembled Stage__c field the string
\* "Prospecting", and recordData holds both under amount__c and stage__c.
C12_DefaultsAssembledForNewRecord ==
    ( /\ published.kind = "new"
      /\ defaultValues = ScenarioBDefaults
      /\ LayoutHasField("Amount__c")
      /\ LayoutHasField("Stage__c") )
    => /\ \E f \in EnhancedFields : f.fieldId = "Amount__c"
       /\ \E f \in EnhancedFields : f.fieldId = "Stage__c"
       /\ \A f \in EnhancedFields :
              /\ f.fieldId = "Amount__c" => f.value = Num(100)
              /\ f.fieldId = "Stage__c" => f.value = Str("Prospecting")
       /\ DataGet(recordData, "amount__c") = Num(100)
       /\ DataGet(recordData, "stage__c") = Str("Prospecting")

\* The sections of a new record have been assembled under the defaults of
\* Scenario B from a layout that holds both fields.
C12_NewRecordAssembledWithDefaults ==
    /\ published.kind = "new"
    /\ defaultValues = ScenarioBDefaults
    /\ \E f \in EnhancedFields : f.fieldId = "Amount__c" /\ f.value.t = "number"
    /\ \E f \in EnhancedFields : f.fieldId = "Stage__c" /\ f.value.t = "string"

\* The places <<section, column, field>> of a draft.
DraftPlaces(draft) ==
    UNION { UNION { { <<s, c, f>> : f \in DOMAIN draft[s].columns[c].enhancedFields } :
                    c \in DOMAIN draft[s].columns } : s \in DOMAIN draft }

\* C13: when the rule-set fetch for a field rejects, the cache is left as it
\* was, no error is raised by it, the field's style is null, and the other
\* fields of the pass are kept: while the pass waits for other fetches they
\* stay in its draft untouched, and when this was the last fetch the
\* published sections hold every field of the draft, the rejected field
\* without a style.
C13_RejectedFetchIsSwallowed ==
    [][ \A p \in DOMAIN passes : \A place \in passes[p].pending :
            (FetchRejectAt(p, place) /\ ~passes[p].failed) =>
                LET draft == passes[p].draft
                    rejected == PlaceField(draft, place)
                IN  /\ iconFormatCache' = iconFormatCache
                    /\ error' = error
                    /\ IF passes[p].pending = {place}
                       THEN /\ Len(passes') = Len(passes) - 1
                            /\ \A other \in DraftPlaces(draft) :
                                   \E f \in EnhancedFields' :
                                       /\ f.fieldId = PlaceField(draft, other).fieldId
                                       /\ f.value = PlaceField(draft, other).value
                                       /\ other = place => f.formatStyle = StyleNull
                                       /\ other # place =>
                                              f.formatStyle = PlaceField(draft, other).formatStyle
                       ELSE /\ Len(passes') = Len(passes)
                            /\ ~passes'[p].failed
                            /\ PlaceField(passes'[p].draft, place) =
                                   [rejected EXCEPT !.formatStyle = StyleNull]
                            /\ \A other \in DraftPlaces(draft) \ {place} :
                                   PlaceField(passes'[p].draft, other) = PlaceField(draft, other)
      ]_vars

\* Sections have been published in which a field that names an icon rule set
\* has no style while the cache has nothing for the rule set (its fetch was
\* rejected), next to a sibling field, and no error is set.
C13_PublishedAfterRejection ==
    /\ ~error
    /\ \E f \in EnhancedFields :
           /\ IsIconRuleset(f.conditionalFormatRuleset)
           /\ iconFormatCache[NormalizedRuleset(f.conditionalFormatRuleset).value] = NotCached
           /\ f.formatStyle = StyleNull
           /\ \E g \in EnhancedFields : g.fieldId # f.fieldId /\ ~g.isBlankSpace

\* C14: the rule-set cache is append-only per key: once iconFormatCache holds
\* a rule set for an identifier, no step replaces or removes that entry.
C14_CacheAppendOnly ==
    [][ \A id \in IconSetIds :
            (iconFormatCache[id].cached /\ ~iconFormatCache[id].isNull) =>
                iconFormatCache'[id] = iconFormatCache[id] ]_vars

\* C16: when the layout fetch has rejected or its result could not be
\* processed, error is set, isLoading is false and isDataAvailable is false,
\* and this stays so: no later step starts another layout fetch.
C16_LayoutFailureIsFinal ==
    /\ [](layoutFetch = "failed" => (error /\ ~isLoading /\ ~isDataAvailable))
    /\ [][layoutFetch = "failed" => layoutFetch' = "failed"]_vars

\* The layout fetch of an existing record has failed and the wire adapter has
\* delivered a result afterwards.
C16_FailedThenDelivered ==
    /\ layoutFetch = "failed"
    /\ deliveries > 0
    /\ recordData # EmptyObject

\* C17: while enableVisibilityRules is false no visibility rule is evaluated
\* and no field is hidden because of one: in the tree the sections were
\* assembled from, every field that carries a rule still has the flag the
\* parser gave it (true), and it is in the sections.
C17_RulesOffHideNothing ==
    (~enableVisibilityRules /\ published.kind # "none") =>
        \A i \in DOMAIN AllSlots(published.parsed) :
            LET entry == AllSlots(published.parsed)[i]
            IN  (~entry.slot.isBlankSpace /\ entry.slot.visibilityRule.present) =>
                    /\ entry.slot.isVisible = "true"
                    /\ Emitted(entry.section, entry.fieldId)

\* The names the caller's excludedFields lists, trimmed and lower-cased.
CallerExcluded == { toLowerCase(Trim(excludedFields[i])) : i \in DOMAIN excludedFields }

\* C18: in read-only display mode the exclusion policy does not remove the
\* system fields: a system field of the layout that the caller's
\* excludedFields does not list (and that no visibility rule governs) is in
\* the assembled sections.
C18_SystemFieldsKeptWhenReadOnly ==
    (isReadOnly /\ published.kind # "none") =>
        LET slots == AllSlots(parseFlexiPageJson(config).sections)
        IN  \A i \in DOMAIN slots :
            LET entry == slots[i]
            IN  ( /\ ~entry.slot.isBlankSpace
                  /\ toLowerCase(entry.fieldId) \in SystemFieldNames
                  /\ toLowerCase(entry.fieldId) \notin CallerExcluded
                  /\ ~entry.slot.visibilityRule.present )
                => /\ Emitted(entry.section, entry.fieldId)
                   /\ \E f \in EnhancedFields : f.fieldId = entry.fieldId

\* Sections have been assembled in read-only display mode from a layout that
\* holds a system field.
C18_SystemFieldShownReadOnly ==
    /\ isReadOnly
    /\ published.kind # "none"
    /\ \E f \in EnhancedFields : toLowerCase(f.fieldId) = "ownerid"

\* C19: every assembled field whose id is, in any casing, one of the seven
\* system read-only fields, or whose slot is read-only, has isEditable false.
C19_ReadOnlyFieldsNotEditable ==
    \A f \in EnhancedFields :
        (~f.isBlankSpace /\ (toLowerCase(f.fieldId) \in SystemFieldNames \/ f.isReadOnly))
            => ~f.isEditable

\* The enhanced fields of the view model sectionsWithKey hands to the template.
PresentedFields ==
    UNION { UNION { Range(sectionsWithKey(sections)[s].columns[c].enhancedFields) :
                    c \in DOMAIN sections[s].columns } : s \in DOMAIN sections }

\* C20: in the view model handed to presentation, a reference field whose
\* metadata supplies the referenced name has that name as its displayValue,
\* and every other field has its value as its displayValue.
C20_ReferenceDisplayValue ==
    \A f \in PresentedFields :
        ~f.isBlankSpace =>
            IF f.type = "REFERENCE" /\ f.referenceNameValue # ""
            THEN f.displayValue = Str(f.referenceNameValue)
            ELSE f.displayValue = f.value

\* The sections the parser gives for the layout the component holds.
ParserOutput == parseFlexiPageJson(config)

C26_NewRecordHidesByRule ==
    published.kind = "new" =>
        \A i \in DOMAIN AllSlots(published.parsed) :
            LET e == AllSlots(published.parsed)[i]
            IN  ( /\ ~e.slot.isBlankSpace
                  /\ e.slot.visibilityRule.present
                  /\ evaluateVisibilityRule(e.slot.visibilityRule, published.rd) = "false" )
                => ~Emitted(e.section, e.fieldId)

\* C27: when field values are delivered for an existing record, applying the
\* default values leaves every field for which the record holds a non-empty
\* value as delivered: a default is written only where the record has none.
C27_DefaultsKeepRecordValues ==
    [][(WireDeliver /\ ~isNewRecord(recordId)) =>
          \E data \in WirePayloads :
              /\ fieldMetadata' = data.metadata
              /\ LET delivered == mapFieldValues(data.values)
                 IN  \A key \in DOMAIN delivered :
                         (delivered[key] # Undef /\ delivered[key] # Str(""))
                             => DataGet(recordData', key) = delivered[key]]_vars

\* ------------------------------------------------------------------------
\* Overlapping assembly passes
\* ------------------------------------------------------------------------

\* A draft all of whose rule-set fetches have been rejected.
SettledDraft(draft) ==
    [s \in DOMAIN draft |->
        [draft[s] EXCEPT !.columns =
            [c \in DOMAIN draft[s].columns |->
                [draft[s].columns[c] EXCEPT !.enhancedFields =
                    [i \in DOMAIN draft[s].columns[c].enhancedFields |->
                        IF draft[s].columns[c].enhancedFields[i].formatStyle = StylePending
                        THEN [draft[s].columns[c].enhancedFields[i] EXCEPT
                                 !.formatStyle = StyleAfterRejection]
                        ELSE draft[s].columns[c].enhancedFields[i]]]]]]

\* The component showing an existing record on the sectioned layout, after
\* its first assembly (whose rule-set fetches were rejected, so that the cache
\* is empty) and a save: the form shows the sections of that assembly and the
\* wire adapter owes the refreshed values.
InitOverlap ==
    /\ recordId = "001xx000003DGb2AAG"
    /\ isReadOnly \in BOOLEAN
    /\ excludedFields = <<>>
    /\ defaultValues = <<>>
    /\ altField = ""
    /\ config = FormSectioned
    /\ \E data \in WirePayloads :
           LET rd == mapFieldValues(data.values)
               excluded == allExcludedFields(excludedFields, isReadOnly)
               parsedSections ==
                   calculateVisibility(
                       removeExcludedFields(parseFlexiPageJson(FormSectioned).sections,
                                            excluded), rd)
           IN  /\ recordData = rd
               /\ fieldMetadata = data.metadata
               /\ sections = FinishSections(SettledDraft(
                                 DraftSections(parsedSections, rd, data.metadata,
                                               [id \in IconSetIds |-> NotCached])))
               /\ fields = collectFields(parsedSections, excluded)
               /\ fieldApiNamesForWire =
                      collectFields(parseFlexiPageJson(FormSectioned).sections, excluded)
               /\ published = [kind |-> "existing", parsed |-> parsedSections, rd |-> rd]
    /\ isLoading = TRUE
    /\ error = FALSE
    /\ editMode = FALSE
    /\ refreshKey = 1
    /\ iconFormatCache = [id \in IconSetIds |-> NotCached]
    /\ connected = TRUE
    /\ layoutFetch = "none"
    /\ wirePending = TRUE
    /\ deliveries = 0
    /\ saves = 0
    /\ passes = <<>>
    /\ NoVisCall
    /\ NoFmtCall
    /\ NoParseCall
    /\ NoEditor

\* What happens from there on: wire results, rule-set responses and saves.
NextOverlap ==
    \/ WireDeliver
    \/ WireError
    \/ FetchResolve
    \/ FetchReject
    \/ HandleSave

SpecOverlap == InitOverlap /\ [][NextOverlap]_vars

\* C28: when assembly passes overlap (values are delivered again while an
\* earlier pass awaits a rule-set fetch), the sections that stand once every
\* pass has ended are those of the pass started last: they were assembled
\* from the values delivered last, and every field in them shows that value.
C28_LaterPassWins ==
    (passes = <<>> /\ published.kind = "existing") =>
        /\ published.rd = recordData
        /\ \A s \in DOMAIN sections : \A c \in DOMAIN sections[s].columns :
               \A i \in DOMAIN sections[s].columns[c].enhancedFields :
                   LET field == sections[s].columns[c].enhancedFields[i]
                   IN  ~field.isBlankSpace =>
                           field.value = DataGet(recordData, toLowerCase(field.fieldId))

\* ---------------------------------------------------------------------------
\* The refetch that ends an assembly
\* ---------------------------------------------------------------------------

\* What the component holds apart from its two counters of work done.
SettledState ==
    <<recordId, recordData, fieldMetadata, sections, fields, fieldApiNamesForWire,
      isLoading, error, editMode, iconFormatCache, wirePending, passes, published>>

\* The step in which an assembly of an existing record is published and
\* checkAltFieldAndRefetch asks for the field values again.
RefetchStarted ==
    /\ ~isNewRecord(recordId)
    /\ altField # ""
    /\ refreshKey' = refreshKey + 1
    /\ isLoading'
    /\ wirePending'

\* C29: for an existing record the chain of refetches comes to an end, with
\* isLoading false and no refetch owed, whenever the collaborators answer:
\* every refetch started after an assembly moves the component on, so that a
\* collaborator answering as before never finds it where the previous answer
\* found it (the same record asked for, the same values awaited, isLoading
\* true and a result owed).
C29_RefetchChainEnds ==
    [][RefetchStarted => SettledState' # SettledState]_vars

\* ---------------------------------------------------------------------------
\* The property editor's default-values modal
\* ---------------------------------------------------------------------------

\* How many loadFields calls may await Apex at once.
MaxLoads == 2

\* The layout names the editor is given or the user types ("" clears it).
FlexiPageNames == {"", "Account_Form"}

\* The defaultValues strings a saved configuration holds, as their
\* [field, value] pairs.
SavedDefaultValues == {<<>>, <<<<"Status__c", "New">>>>}

\* The values typed into an entry, and the Flow variables picked for one
\* ("" when the input is cleared).
TypedValues == {"", "Acme"}

FlowVariables == {"", "accountVar"}

\* parseDefaultValues of the editor: the pairs with a field and a value, a
\* later pair replacing an earlier one of the same field.
RECURSIVE cpeParseDefaultValues(_)
cpeParseDefaultValues(pairs) ==
    IF pairs = <<>> THEN NoDefaults
    ELSE LET n == Len(pairs)
             before == cpeParseDefaultValues(SubSeq(pairs, 1, n - 1))
             field == pairs[n][1]
             value == pairs[n][2]
         IN  IF field # "" /\ value # "" /\ field \in EditorFieldNames
             THEN [before EXCEPT ![field] = value]
             ELSE before

\* The entries loadFields prepares (label and type, which no handler of the
\* modal changes, are left out).
LoadedDefaultValueFields(saved) ==
    [i \in DOMAIN EditorFields |->
        [value |-> EditorFields[i],
         defaultValue |-> saved[EditorFields[i]],
         selectedVariable |-> saved[EditorFields[i]]]]

\* updateDefaultValueFields
updateDefaultValueFields(entries, temp) ==
    [i \in DOMAIN entries |->
        LET field == entries[i]
            currentValue == IF temp[field.value] # "" THEN temp[field.value]
                            ELSE field.defaultValue
        IN  [field EXCEPT !.defaultValue = currentValue,
                          !.selectedVariable = currentValue]]

\* The map of handleDefaultValueChange and handleFieldVariableChange over the
\* entries: the entry of fieldName gets the two values, the others stay.
SetEntry(entries, fieldName, shown, variable) ==
    [i \in DOMAIN entries |->
        IF entries[i].value = fieldName
        THEN [entries[i] EXCEPT !.defaultValue = shown, !.selectedVariable = variable]
        ELSE entries[i]]

\* The names of the entries shown.
EntryNames == {defaultValueFields[i].value : i \in DOMAIN defaultValueFields}

\* loadFields, up to its first await: without an object or a layout it empties
\* the entries, otherwise a call is under way, followed by `then`.
loadFields(page, then, pending) ==
    IF objectApiName' = "" \/ page = ""
    THEN /\ defaultValueFields' = <<>>
         /\ UNCHANGED fieldLoads
    ELSE /\ fieldLoads' = Append(fieldLoads, [then |-> then, pending |-> pending])
         /\ UNCHANGED defaultValueFields

\* set inputVariables / initializeValues, for a saved configuration.
InitializeValues ==
    /\ objectApiName = ""
    /\ ~showDefaultValuesModal
    /\ \E page \in FlexiPageNames, pendingDefaultValues \in SavedDefaultValues :
           /\ objectApiName' = "Account"
           /\ IF page # ""
              THEN /\ selectedFlexiPage' = page
                   /\ loadFields(page, "initialize", pendingDefaultValues)
              ELSE UNCHANGED <<selectedFlexiPage, defaultValueFields, fieldLoads>>
    /\ UNCHANGED <<defaultFieldValues, tempDefaultValues, showDefaultValuesModal,
                   selectedRecordVariable>>
    /\ UNCHANGED <<propVars, fieldVars, envVars, visVars, fmtVars, parseVars>>

\* handleFlexiPageChange (the input is disabled without an object)
HandleFlexiPageChange ==
    /\ objectApiName # ""
    /\ ~showDefaultValuesModal
    /\ Len(fieldLoads) < MaxLoads
    /\ \E page \in FlexiPageNames :
           /\ selectedFlexiPage' = page
           /\ UNCHANGED objectApiName
           /\ loadFields(page, "none", <<>>)
    /\ UNCHANGED <<defaultFieldValues, tempDefaultValues, showDefaultValuesModal,
                   selectedRecordVariable>>
    /\ UNCHANGED <<propVars, fieldVars, envVars, visVars, fmtVars, parseVars>>

\* What follows a loadFields call once it has ended with the entries `loaded`.
AfterLoad(load, loaded) ==
    IF load.then = "initialize"
    THEN /\ defaultValueFields' = loaded
         /\ defaultFieldValues' =
                IF load.pending = <<>> THEN defaultFieldValues
                ELSE cpeParseDefaultValues(load.pending)
    ELSE IF load.then = "update"
    THEN /\ defaultValueFields' = updateDefaultValueFields(loaded, tempDefaultValues)
         /\ UNCHANGED defaultFieldValues
    ELSE /\ defaultValueFields' = loaded
         /\ UNCHANGED defaultFieldValues

\* The Apex calls of a loadFields call return: it prepares the entries from
\* the saved defaults.
LoadFieldsResolve ==
    /\ \E n \in DOMAIN fieldLoads :
           /\ fieldLoads' = RemoveAt(fieldLoads, n)
           /\ AfterLoad(fieldLoads[n], LoadedDefaultValueFields(defaultFieldValues))
    /\ UNCHANGED <<objectApiName, selectedFlexiPage, tempDefaultValues,
                   showDefaultValuesModal, selectedRecordVariable>>
    /\ UNCHANGED <<propVars, fieldVars, envVars, visVars, fmtVars, parseVars>>

\* An Apex call of a loadFields call fails: its catch shows the error and the
\* entries stay as they are.
LoadFieldsReject ==
    /\ \E n \in DOMAIN fieldLoads :
           /\ fieldLoads' = RemoveAt(fieldLoads, n)
           /\ AfterLoad(fieldLoads[n], defaultValueFields)
    /\ UNCHANGED <<objectApiName, selectedFlexiPage, tempDefaultValues,
                   showDefaultValuesModal, selectedRecordVariable>>
    /\ UNCHANGED <<propVars, fieldVars, envVars, visVars, fmtVars, parseVars>>

\* openDefaultValuesModal (without a layout it only shows an error)
OpenDefaultValuesModal ==
    /\ ~showDefaultValuesModal
    /\ selectedFlexiPage # ""
    /\ defaultValueFields # <<>> \/ Len(fieldLoads) < MaxLoads
    /\ showDefaultValuesModal' = TRUE
    /\ tempDefaultValues' = defaultFieldValues
    /\ UNCHANGED objectApiName
    /\ IF defaultValueFields = <<>>
       THEN loadFields(selectedFlexiPage, "update", <<>>)
       ELSE /\ defaultValueFields' =
                   updateDefaultValueFields(defaultValueFields, tempDefaultValues')
            /\ UNCHANGED fieldLoads
    /\ UNCHANGED <<selectedFlexiPage, defaultFieldValues, selectedRecordVariable>>
    /\ UNCHANGED <<propVars, fieldVars, envVars, visVars, fmtVars, parseVars>>

\* handleDefaultValueChange, from the input of an entry shown
HandleDefaultValueChange ==
    /\ showDefaultValuesModal
    /\ \E fieldName \in EntryNames, value \in TypedValues :
           /\ tempDefaultValues' = [tempDefaultValues EXCEPT ![fieldName] = value]
           /\ defaultValueFields' = SetEntry(defaultValueFields, fieldName, value, "")
    /\ UNCHANGED <<objectApiName, selectedFlexiPage, defaultFieldValues,
                   showDefaultValuesModal, selectedRecordVariable, fieldLoads>>
    /\ UNCHANGED <<propVars, fieldVars, envVars, visVars, fmtVars, parseVars>>

\* handleFieldVariableChange, from the variable picker of an entry shown
HandleFieldVariableChange ==
    /\ showDefaultValuesModal
    /\ \E fieldName \in EntryNames, selectedVariable \in FlowVariables :
           /\ tempDefaultValues' =
                  [tempDefaultValues EXCEPT ![fieldName] = selectedVariable]
           /\ defaultValueFields' =
                  SetEntry(defaultValueFields, fieldName, selectedVariable,
                           selectedVariable)
    /\ UNCHANGED <<objectApiName, selectedFlexiPage, defaultFieldValues,
                   showDefaultValuesModal, selectedRecordVariable, fieldLoads>>
    /\ UNCHANGED <<propVars, fieldVars, envVars, visVars, fmtVars, parseVars>>

\* handleRecordVariableChange: every entry shown gets the variable's path to
\* its field, or is cleared.
HandleRecordVariableChange ==
    /\ showDefaultValuesModal
    /\ \E newValue \in FlowVariables :
           LET variablePath(f) == IF newValue = "" THEN "" ELSE newValue \o "." \o f
           IN  /\ selectedRecordVariable' = newValue
               /\ tempDefaultValues' =
                      [f \in EditorFieldNames |->
                          IF f \in EntryNames THEN variablePath(f)
                          ELSE tempDefaultValues[f]]
               /\ defaultValueFields' =
                      [i \in DOMAIN defaultValueFields |->
                          [defaultValueFields[i] EXCEPT
                              !.defaultValue = variablePath(defaultValueFields[i].value),
                              !.selectedVariable =
                                  variablePath(defaultValueFields[i].value)]]
    /\ UNCHANGED <<objectApiName, selectedFlexiPage, defaultFieldValues,
                   showDefaultValuesModal, fieldLoads>>
    /\ UNCHANGED <<propVars, fieldVars, envVars, visVars, fmtVars, parseVars>>

\* closeDefaultValuesModal
CloseDefaultValuesModal ==
    /\ showDefaultValuesModal
    /\ showDefaultValuesModal' = FALSE
    /\ tempDefaultValues' = NoDefaults
    /\ UNCHANGED <<objectApiName, selectedFlexiPage, defaultFieldValues,
                   defaultValueFields, selectedRecordVariable, fieldLoads>>
    /\ UNCHANGED <<propVars, fieldVars, envVars, visVars, fmtVars, parseVars>>

\* saveDefaultValues, which ends with closeDefaultValuesModal
SaveDefaultValues ==
    /\ showDefaultValuesModal
    /\ defaultFieldValues' = tempDefaultValues
    /\ showDefaultValuesModal' = FALSE
    /\ tempDefaultValues' = NoDefaults
    /\ UNCHANGED <<objectApiName, selectedFlexiPage, defaultValueFields,
                   selectedRecordVariable, fieldLoads>>
    /\ UNCHANGED <<propVars, fieldVars, envVars, visVars, fmtVars, parseVars>>

\* The editor as constructed, next to a component that is not used.
InitEditor ==
    /\ DefaultProps
    /\ FreshFields
    /\ FreshEnv
    /\ NoVisCall
    /\ NoFmtCall
    /\ NoParseCall
    /\ config = NullDoc
    /\ recordData = EmptyRecordData
    /\ NoEditor

NextEditor ==
    \/ InitializeValues
    \/ HandleFlexiPageChange
    \/ LoadFieldsResolve
    \/ LoadFieldsReject
    \/ OpenDefaultValuesModal
    \/ HandleDefaultValueChange
    \/ HandleFieldVariableChange
    \/ HandleRecordVariableChange
    \/ CloseDefaultValuesModal
    \/ SaveDefaultValues

SpecEditor == InitEditor /\ [][NextEditor]_vars

\* C30: closing the default-values modal without saving leaves
\* defaultFieldValues as it was, and when the modal is opened over entries
\* already loaded, every entry shows the saved default of its field (empty
\* when none is saved), which is also what saveDefaultValues would store for
\* that field at that moment.
C30_CloseDiscardsEdits ==
    [][/\ CloseDefaultValuesModal => defaultFieldValues' = defaultFieldValues
       /\ (OpenDefaultValuesModal /\ defaultValueFields # <<>>) =>
              \A i \in DOMAIN defaultValueFields' :
                  LET entry == defaultValueFields'[i]
                  IN  /\ entry.defaultValue = defaultFieldValues'[entry.value]
                      /\ entry.defaultValue = tempDefaultValues'[entry.value]]_vars

====
